---- MODULE Spec2Model ----
(***************************************************************************)
(* Run-history data migrations of dagster/_core/storage/runs/migration.py: *)
(* the three chunked iterators and the migration procedures, run           *)
(* against a relational run storage (runs, run_tags, bulk_actions,         *)
(* backfill_tags and run_assets tables) and an event log.                  *)
(*                                                                         *)
(* A fetched row is represented by its storage id (its position in the     *)
(* table): the parts of a row the procedures read from a fetched chunk     *)
(* (the serialized body, the run id, the backfill id) are never written by *)
(* any operation, so the id stands for the snapshot of the row.            *)
(***************************************************************************)
EXTENDS Integers, Sequences, FiniteSets, TLC

\* ------------------------------------------------------------ constants

CHUNK_SIZE == 100

NULL == "NULL"

None == <<>>

Some(x) == <<x>>

PARTITION_NAME_TAG == "dagster/partition"

PARTITION_SET_TAG == "dagster/partition_set"

BACKFILL_ID_TAG == "dagster/backfill"

REPOSITORY_LABEL_TAG == ".dagster/repository"

UNSTARTED_RUN_STATUSES == {"QUEUED", "NOT_STARTED", "MANAGED", "STARTING"}

RUN_PARTITIONS == "run_partitions"

\* Mutant of RUN_START_END: the name before the renaming.
RUN_START_END_BeforeRename == "run_start_end"

RUN_START_END == "run_start_end_overwritten"

RUN_REPO_LABEL_TAGS == "run_repo_label_tags"

BULK_ACTION_TYPES == "bulk_action_types"

RUN_BACKFILL_ID == "run_backfill_id"

BACKFILL_JOB_NAME_AND_TAGS == "backfill_job_name_and_tags"

RUN_ASSETS == "run_assets"

\* ---------------------------------------------------------------- bounds

\* Largest store and largest chunk_size argument of a direct iteration.
MaxRecords == 6

MaxChunkSize == 3

\* Fetch calls after which a direct iteration is cut off (a non-terminating
\* iteration is seen as one that reaches this many fetch calls).
MaxFetches == 9

\* ------------------------------------------------------------------ state

VARIABLES
    REQUIRED_DATA_MIGRATIONS, \* the required registry: name -> the procedure its producer returns
    OPTIONAL_DATA_MIGRATIONS, \* the optional registry
    proc,           \* the procedure invoked: an iterator or a migration name
    chunk_size,     \* the chunk_size argument of the iterator
    print_fn,       \* whether a progress callback was supplied
    backfill_tags_unique, \* whether BackfillTagsTable rejects a second row for a (backfill, key)
    relational,     \* whether the storage is a SqlRunStorage
    runs,           \* RunsTable: sequence of rows, storage id = position
    run_tags,       \* RunTagsTable: sequence of [run_id, key, value]
    bulk_actions,   \* BulkActionsTable: sequence of rows, storage id = position
    backfill_tags,  \* BackfillTagsTable: sequence of [backfill_id, key, value]
    run_assets,     \* RunAssetsTable: sequence of [run_id, asset_key]
    event_log,      \* the instance's event log, per run: statistics and asset events
    invocation,     \* 1 for the first invocation of the procedure, 2 for a re-run, ...
    aborted_store,  \* history: None, or Some(store) when the first invocation was aborted
    store0,         \* history: the store when the first invocation began
    first_result,   \* history: None, or Some(store) when the first invocation returned
    pc,             \* position of the procedure
    cursor,         \* None or Some(identifier)
    has_more,
    chunk,          \* the chunk fetched last: sequence of storage ids
    idx,            \* position in chunk of the next element to process
    yielded,        \* history: storage ids yielded or processed, in order
    fetches,        \* history: number of fetch calls / chunk queries issued
    fetch_lens,     \* history: length of the chunk each fetch returned
    count_calls,    \* history: number of total-count queries issued
    progress,       \* None, or Some(n): the progress bar and what it advanced by
    tag_calls,      \* history: the storage.add_run_tags calls, as [run_id, tags]
    log_queries,    \* history: the run ids the event log was queried for
    conn_open,      \* number of connection scopes open
    conn_acquired,  \* history: number of connection scopes acquired
    fetch_cursors,  \* history: the cursor each fetch call / chunk query was issued with
    peer            \* a second process running migrate_run_repo_tags on the same store:
                    \* its pc, cursor, has_more, chunk, idx and the rows it processed

store == <<runs, run_tags, bulk_actions, backfill_tags, run_assets>>

\* The store as one value.
St ==
    [runs |-> runs, run_tags |-> run_tags, bulk_actions |-> bulk_actions,
     backfill_tags |-> backfill_tags, run_assets |-> run_assets]

local == <<pc, cursor, has_more, chunk, idx>>

history == <<yielded, fetches, fetch_lens, count_calls, progress>>

registry == <<REQUIRED_DATA_MIGRATIONS, OPTIONAL_DATA_MIGRATIONS>>

params == <<registry, proc, chunk_size, print_fn, backfill_tags_unique, relational, event_log>>

calls == <<tag_calls, log_queries, conn_open, conn_acquired>>

runinfo == <<invocation, aborted_store, store0, first_result>>

\* The first invocation was aborted part-way.
crashed == aborted_store # None

vars == <<params, store, local, history, runinfo, calls, fetch_cursors, peer>>

\* ------------------------------------------------------------- rows

\* run.tags of a run: a mapping from the reserved keys it carries.
Tags(pn, ps, bf) ==
    [k \in (IF pn THEN {PARTITION_NAME_TAG} ELSE {}) \cup (IF ps THEN {PARTITION_SET_TAG} ELSE {})
           \cup (IF bf = NULL THEN {} ELSE {BACKFILL_ID_TAG}) |->
        IF k = BACKFILL_ID_TAG THEN bf ELSE "p"]

NoTags == Tags(FALSE, FALSE, NULL)

\* A serialized value: the class it was packed from and its fields.
Serialized(cls, value) == [class |-> cls, value |-> value]

\* deserialize_value(val, as_type): the value, or None when the stored text
\* does not unpack to an object of the expected class (the call raises).
deserialize_value(val, cls) ==
    IF val.class = cls THEN Some(val.value) ELSE None

\* A row of RunsTable. run_body holds the serialized DagsterRun: its status,
\* tags and remote_job_origin (here the label of its repository origin, or
\* NULL when the run has no remote_job_origin).
RunRow(id, status, origin, tags, st, et, bf) ==
    [run_id |-> id,
     run_body |-> Serialized("DagsterRun",
                     [run_id |-> id, status |-> status, tags |-> tags,
                      remote_job_origin |-> origin]),
     start_time |-> st, end_time |-> et, backfill_id |-> bf]

PlainRun(id) == RunRow(id, "SUCCESS", NULL, NoTags, NULL, NULL, NULL)

\* A row of BulkActionsTable. body holds the serialized PartitionBackfill; its
\* tags are the (key, value) pairs of backfill.tags.items().
BulkRow(key, sel, ty, tags, jn, csel, cty, cjn) ==
    [key |-> key,
     body |-> Serialized("PartitionBackfill",
                 [backfill_id |-> key, selector_id |-> sel, bulk_action_type |-> ty,
                  tags |-> tags, job_name |-> jn]),
     selector_id |-> csel, action_type |-> cty, job_name |-> cjn]

PlainBackfill(id) ==
    BulkRow(id, "sel", "PARTITION_BACKFILL", <<>>, NULL, "sel", "PARTITION_BACKFILL", NULL)

\* The event log's entry of a run: its statistics and the asset keys of its
\* asset events, in order (None for an event that carries no asset key).
LogEntry(st, et, asset_keys) ==
    [start_time |-> st, end_time |-> et, asset_events |-> asset_keys]

NoEvents == LogEntry(NULL, NULL, <<>>)

Ok(st) == [raised |-> NULL, st |-> st]

Raise(what, st) == [raised |-> what, st |-> st]

\* ----------------------------------------------------- storage accessors

\* Storage ids start + 1 .. of the table, at most limit of them, in order.
Page(n, start, limit) ==
    LET last == IF start + limit < n THEN start + limit ELSE n
    IN  [j \in 1..(last - start) |-> start + j]

\* Position of the row a cursor names (0 for no cursor).
RunPos(rs, c) ==
    IF c = None THEN 0 ELSE CHOOSE i \in 1..Len(rs) : rs[i].run_id = c[1]

BackfillPos(bs, c) ==
    IF c = None THEN 0 ELSE CHOOSE i \in 1..Len(bs) : bs[i].key = c[1]

\* The DagsterRun / PartitionBackfill the storage returns for a row.
RunOf(rs, i) == rs[i].run_body.value

BackfillOf(bs, i) == bs[i].body.value

get_runs(rs, c, limit) == Page(Len(rs), RunPos(rs, c), limit)

get_run_records(rs, c, limit) == Page(Len(rs), RunPos(rs, c), limit)

get_backfills(bs, c, limit) == Page(Len(bs), BackfillPos(bs, c), limit)

\* instance.get_run_stats(run_id)
get_run_stats(log, run_id) ==
    [start_time |-> log[run_id].start_time, end_time |-> log[run_id].end_time]

\* instance.all_logs(run_id, of_type=ASSET_EVENTS)
all_logs(log, run_id) == log[run_id].asset_events

\* RunTagsTable.insert(): raises IntegrityError when the run already has a
\* row for the key.
RunTagsInsert(tbl, row) ==
    IF \E j \in 1..Len(tbl) : tbl[j].run_id = row.run_id /\ tbl[j].key = row.key
    THEN [raised |-> "IntegrityError", table |-> tbl]
    ELSE [raised |-> NULL, table |-> Append(tbl, row)]

\* All orders in which the elements of a finite set can be listed.
Orders(S) ==
    {f \in [1..Cardinality(S) -> S] : \A x \in S : \E k \in 1..Cardinality(S) : f[k] = x}

\* conn.execute(table.insert(), rows) on a table with a uniqueness constraint
\* (conflict[j]: row j collides with a row of the table). Without a collision
\* every row is appended. With one the call raises IntegrityError and the
\* table keeps either nothing of the call (the statement is applied as a
\* whole) or the rows before the first colliding one (it is applied row by
\* row).
InsertMany(tbl, rows, conflict) ==
    LET bad == {j \in 1..Len(rows) : conflict[j]}
    IN  IF bad = {}
        THEN {[raised |-> NULL, table |-> tbl \o rows]}
        ELSE LET first == CHOOSE j \in bad : \A k \in bad : j <= k
             IN  {[raised |-> "IntegrityError", table |-> tbl],
                  [raised |-> "IntegrityError", table |-> tbl \o SubSeq(rows, 1, first - 1)]}

RunAssetsInsertMany(tbl, rows) ==
    InsertMany(tbl, rows,
               [j \in 1..Len(rows) |->
                   \E k \in 1..Len(tbl) : /\ tbl[k].run_id = rows[j].run_id
                                          /\ tbl[k].asset_key = rows[j].asset_key])

BackfillTagsInsertMany(tbl, rows, unique) ==
    InsertMany(tbl, rows,
               [j \in 1..Len(rows) |->
                   /\ unique
                   /\ \E k \in 1..Len(tbl) : /\ tbl[k].backfill_id = rows[j].backfill_id
                                             /\ tbl[k].key = rows[j].key])

\* ------------------------------------------------------ write helpers

\* add_run_stats(run_storage, run_id)
add_run_stats(st, log, run_id) ==
    IF ~relational THEN {Ok(st)}
    ELSE
    LET run_stats == get_run_stats(log, run_id)
    IN  {[raised |-> NULL,
          st |-> [st EXCEPT !.runs =
                    [i \in 1..Len(@) |->
                        IF @[i].run_id = run_id
                        THEN [@[i] EXCEPT !.start_time = run_stats.start_time,
                                          !.end_time = run_stats.end_time]
                        ELSE @[i]]],
          log_query |-> run_id]}

\* The order in which the keys of a tag mapping are listed.
TagKeyOrder == <<PARTITION_NAME_TAG, PARTITION_SET_TAG, BACKFILL_ID_TAG>>

\* storage.add_run_tags(run_id, new_tags): the tag index of the run holds the
\* value of each key of new_tags (a row it has already is updated, a missing
\* one is added); the other rows stay.
add_run_tags(st, run_id, new_tags) ==
    LET updated == [j \in 1..Len(st.run_tags) |->
                       IF st.run_tags[j].run_id = run_id /\ st.run_tags[j].key \in DOMAIN new_tags
                       THEN [st.run_tags[j] EXCEPT !.value = new_tags[st.run_tags[j].key]]
                       ELSE st.run_tags[j]]
        missing == SelectSeq(TagKeyOrder,
                       LAMBDA k : /\ k \in DOMAIN new_tags
                                  /\ \A j \in 1..Len(st.run_tags) :
                                        ~(st.run_tags[j].run_id = run_id /\ st.run_tags[j].key = k))
        added == [j \in 1..Len(missing) |->
                     [run_id |-> run_id, key |-> missing[j], value |-> new_tags[missing[j]]]]
    IN  {[raised |-> NULL, st |-> [st EXCEPT !.run_tags = updated \o added],
          tag_call |-> [run_id |-> run_id, tags |-> new_tags]]}

\* run.remote_job_origin.repository_origin.get_label()
get_label(origin) == origin

\* Mutant of write_repo_tag: the early return for a run without a
\* remote_job_origin dropped (a row with a null label is inserted).
write_repo_tag_NoOriginCheck(tags, run) ==
    LET r == RunTagsInsert(tags, [run_id |-> run.run_id,
                                  key |-> REPOSITORY_LABEL_TAG,
                                  value |-> get_label(run.remote_job_origin)])
    IN  IF r.raised = "IntegrityError"
        THEN [raised |-> NULL, table |-> r.table]
        ELSE r

\* Mutant of write_repo_tag: the IntegrityError of the insert is not caught.
write_repo_tag_NoCatch(tags, run) ==
    IF run.remote_job_origin = NULL THEN [raised |-> NULL, table |-> tags]
    ELSE RunTagsInsert(tags, [run_id |-> run.run_id,
                              key |-> REPOSITORY_LABEL_TAG,
                              value |-> get_label(run.remote_job_origin)])

\* write_repo_tag(conn, run): the table after the call and what it raised
write_repo_tag(tags, run) ==
    IF run.remote_job_origin = NULL THEN [raised |-> NULL, table |-> tags]
    ELSE LET r == RunTagsInsert(tags, [run_id |-> run.run_id,
                                       key |-> REPOSITORY_LABEL_TAG,
                                       value |-> get_label(run.remote_job_origin)])
         IN  IF r.raised = "IntegrityError"
             THEN [raised |-> NULL, table |-> r.table]
             ELSE r

\* Mutant of BulkActionsUpdate: the update keyed by the backfill's logical key.
BulkActionsUpdate_ByKey(tbl, storage_id, backfill) ==
    [i \in 1..Len(tbl) |->
        IF tbl[i].key = backfill.backfill_id
        THEN [tbl[i] EXCEPT !.selector_id = backfill.selector_id,
                            !.action_type = backfill.bulk_action_type]
        ELSE tbl[i]]

\* BulkActionsTable.update().values(selector_id=, action_type=)
\*     .where(BulkActionsTable.c.id == storage_id)
BulkActionsUpdate(tbl, storage_id, backfill) ==
    [i \in 1..Len(tbl) |->
        IF i = storage_id
        THEN [tbl[i] EXCEPT !.selector_id = backfill.selector_id,
                            !.action_type = backfill.bulk_action_type]
        ELSE tbl[i]]

\* add_backfill_id(run_storage, run_id, backfill_id)
add_backfill_id(st, run_id, backfill_id) ==
    IF ~relational THEN {Ok(st)}
    ELSE
    {Ok([st EXCEPT !.runs =
            [i \in 1..Len(@) |->
                IF @[i].run_id = run_id
                THEN [@[i] EXCEPT !.backfill_id = backfill_id]
                ELSE @[i]]])}

\* add_backfill_tags(run_storage, backfill_id, tags): one insert of a row per
\* (key, value) pair, not wrapped in a try
add_backfill_tags(st, unique, backfill_id, tags) ==
    IF ~relational THEN {Ok(st)}
    ELSE
    LET rows == [j \in 1..Len(tags) |->
                    [backfill_id |-> backfill_id, key |-> tags[j][1], value |-> tags[j][2]]]
    IN  {[raised |-> r.raised, st |-> [st EXCEPT !.backfill_tags = r.table]] :
            r \in BackfillTagsInsertMany(st.backfill_tags, rows, unique)}

\* Mutant of add_backfill_job_name: the update without its where clause.
add_backfill_job_name_NoWhere(st, backfill_id, job_name) ==
    IF ~relational THEN {Ok(st)}
    ELSE
    {Ok([st EXCEPT !.bulk_actions =
            [i \in 1..Len(@) |-> [@[i] EXCEPT !.job_name = job_name]]])}

\* add_backfill_job_name(run_storage, backfill_id, job_name)
add_backfill_job_name(st, backfill_id, job_name) ==
    IF ~relational THEN {Ok(st)}
    ELSE
    {Ok([st EXCEPT !.bulk_actions =
            [i \in 1..Len(@) |->
                IF @[i].key = backfill_id
                THEN [@[i] EXCEPT !.job_name = job_name]
                ELSE @[i]]])}

\* asset_key.to_string()
to_string(asset_key) == <<"AssetKey">> \o asset_key

\* Mutant of add_run_assets: the IntegrityError of the insert is not caught.
add_run_assets_NoCatch(st, log, run_id) ==
    LET run_asset_events == all_logs(log, run_id)
        asset_keys == {run_asset_events[j] : j \in 1..Len(run_asset_events)} \ {None}
    IN  IF ~relational THEN {[raised |-> NULL, st |-> st, log_query |-> run_id]}
        ELSE
        {[raised |-> r.raised, st |-> [st EXCEPT !.run_assets = r.table],
          log_query |-> run_id] :
            r \in UNION {RunAssetsInsertMany(st.run_assets,
                             [j \in 1..Len(o) |->
                                 [run_id |-> run_id, asset_key |-> to_string(o[j])]]) :
                         o \in Orders(asset_keys)}}

\* add_run_assets(run_storage, run_id): the distinct non-null asset keys of
\* the run's asset events, inserted in one call (in the order the set is
\* iterated in); an IntegrityError of the insert is swallowed
add_run_assets(st, log, run_id) ==
    LET run_asset_events == all_logs(log, run_id)
        asset_keys == {run_asset_events[j] : j \in 1..Len(run_asset_events)} \ {None}
    IN  IF ~relational THEN {[raised |-> NULL, st |-> st, log_query |-> run_id]}
        ELSE
        {[raised |-> NULL, st |-> [st EXCEPT !.run_assets = r.table],
          log_query |-> run_id] :
            r \in UNION {RunAssetsInsertMany(st.run_assets,
                             [j \in 1..Len(o) |->
                                 [run_id |-> run_id, asset_key |-> to_string(o[j])]]) :
                         o \in Orders(asset_keys)}}

\* ------------------------------ loop bodies of the iterating migrations

\* Mutant of migrate_run_partition_body: the test for the partition-set tag
\* dropped.
migrate_run_partition_body_NameOnly(st, i) ==
    LET run == RunOf(st.runs, i)
    IN  IF PARTITION_NAME_TAG \notin DOMAIN run.tags THEN {Ok(st)}
        ELSE add_run_tags(st, run.run_id, run.tags)

\* migrate_run_partition: the body of the for loop
migrate_run_partition_body(st, i) ==
    LET run == RunOf(st.runs, i)
    IN  IF PARTITION_NAME_TAG \notin DOMAIN run.tags THEN {Ok(st)}
        ELSE IF PARTITION_SET_TAG \notin DOMAIN run.tags THEN {Ok(st)}
        ELSE add_run_tags(st, run.run_id, run.tags)

\* Mutant of migrate_run_start_end_body: the test of the run's status dropped.
migrate_run_start_end_body_NoSkip(st, log, i) ==
    LET run_record == RunOf(st.runs, i)
    IN  add_run_stats(st, log, run_record.run_id)

\* Mutant of migrate_run_start_end_body: the skip of a run that has a
\* start_time already (the lines the source has commented out).
migrate_run_start_end_body_SkipStored(st, log, i) ==
    LET run_record == RunOf(st.runs, i)
    IN  IF run_record.status \in UNSTARTED_RUN_STATUSES THEN {Ok(st)}
        ELSE IF st.runs[i].start_time # NULL THEN {Ok(st)}
        ELSE add_run_stats(st, log, run_record.run_id)

\* migrate_run_start_end: the body of the for loop
migrate_run_start_end_body(st, log, i) ==
    LET run_record == RunOf(st.runs, i)
    IN  IF run_record.status \in UNSTARTED_RUN_STATUSES THEN {Ok(st)}
        ELSE add_run_stats(st, log, run_record.run_id)

\* Mutant of migrate_run_backfill_id_body: a run whose backfill_id column is
\* set already is skipped.
migrate_run_backfill_id_body_SkipSet(st, i) ==
    LET run == RunOf(st.runs, i)
    IN  IF BACKFILL_ID_TAG \notin DOMAIN run.tags THEN {Ok(st)}
        ELSE IF st.runs[i].backfill_id # NULL THEN {Ok(st)}
        ELSE add_backfill_id(st, run.run_id, run.tags[BACKFILL_ID_TAG])

\* migrate_run_backfill_id: the body of the for loop
migrate_run_backfill_id_body(st, i) ==
    LET run == RunOf(st.runs, i)
    IN  IF BACKFILL_ID_TAG \notin DOMAIN run.tags THEN {Ok(st)}
        ELSE add_backfill_id(st, run.run_id, run.tags[BACKFILL_ID_TAG])

\* migrate_backfill_job_name_and_tags: the body of the for loop; an error of
\* add_backfill_tags ends it
migrate_backfill_job_name_and_tags_body(st, unique, i) ==
    LET backfill == BackfillOf(st.bulk_actions, i)
        tagged == IF backfill.tags # <<>>
                  THEN add_backfill_tags(st, unique, backfill.backfill_id, backfill.tags)
                  ELSE {Ok(st)}
    IN  UNION {IF r.raised # NULL THEN {r}
               ELSE IF backfill.job_name # NULL
                    THEN add_backfill_job_name(r.st, backfill.backfill_id, backfill.job_name)
                    ELSE {r} :
               r \in tagged}

\* migrate_run_assets: the body of the for loop
migrate_run_assets_body(st, log, i) ==
    LET run_record == RunOf(st.runs, i)
    IN  IF run_record.status \in UNSTARTED_RUN_STATUSES THEN {Ok(st)}
        ELSE add_run_assets(st, log, run_record.run_id)

\* Mutant of migrate_run_repo_tags_body: a body that does not deserialize is
\* skipped.
migrate_run_repo_tags_body_SkipCorrupt(st, id) ==
    LET run == deserialize_value(st.runs[id].run_body, "DagsterRun")
    IN  IF run = None THEN {Ok(st)}
        ELSE LET w == write_repo_tag(st.run_tags, run[1])
             IN  {[raised |-> w.raised, st |-> [st EXCEPT !.run_tags = w.table]]}

\* migrate_run_repo_tags: the body of the for loop over the rows of a chunk
migrate_run_repo_tags_body(st, id) ==
    LET run == deserialize_value(st.runs[id].run_body, "DagsterRun")
    IN  IF run = None THEN {Raise("DeserializationError", st)}
        ELSE LET w == write_repo_tag(st.run_tags, run[1])
             IN  {[raised |-> w.raised, st |-> [st EXCEPT !.run_tags = w.table]]}

\* migrate_bulk_actions: the body of the for loop over the rows of a chunk
migrate_bulk_actions_body(st, storage_id) ==
    LET backfill == deserialize_value(st.bulk_actions[storage_id].body, "PartitionBackfill")
    IN  IF backfill = None THEN {Raise("DeserializationError", st)}
        ELSE {Ok([st EXCEPT !.bulk_actions = BulkActionsUpdate(@, storage_id, backfill[1])])}

\* ------------------------------------------------------ chunked iterators

Iterators ==
    {"chunked_run_iterator", "chunked_run_records_iterator", "chunked_backfill_iterator"}

IteratingMigrations ==
    {"migrate_run_partition", "migrate_run_start_end", "migrate_run_backfill_id",
     "migrate_backfill_job_name_and_tags", "migrate_run_assets"}

\* The iterator a procedure drives.
IteratorOf(p) ==
    CASE p \in Iterators -> p
      [] p = "migrate_run_partition" -> "chunked_run_iterator"
      [] p = "migrate_run_start_end" -> "chunked_run_records_iterator"
      [] p = "migrate_run_backfill_id" -> "chunked_run_iterator"
      [] p = "migrate_backfill_job_name_and_tags" -> "chunked_backfill_iterator"
      [] p = "migrate_run_assets" -> "chunked_run_records_iterator"

\* storage.get_runs / get_run_records / get_backfills (cursor=, limit=)
FetchChunk(it, st, c, limit) ==
    CASE it = "chunked_run_iterator" -> get_runs(st.runs, c, limit)
      [] it = "chunked_run_records_iterator" -> get_run_records(st.runs, c, limit)
      [] it = "chunked_backfill_iterator" -> get_backfills(st.bulk_actions, c, limit)

\* run.run_id / run.dagster_run.run_id / backfill.backfill_id
ItemId(it, st, i) ==
    CASE it = "chunked_run_iterator" -> RunOf(st.runs, i).run_id
      [] it = "chunked_run_records_iterator" -> RunOf(st.runs, i).run_id
      [] it = "chunked_backfill_iterator" -> BackfillOf(st.bulk_actions, i).backfill_id

\* Mutants of IterHasMore: a strict comparison; "some rows came back"; the
\* chunk_size guard dropped.
IterHasMore_Strict(size, n) == size # 0 /\ n > size

IterHasMore_NonEmpty(size, n) == size # 0 /\ n > 0

IterHasMore_NoZeroGuard(size, n) == n >= size

\* has_more = chunk_size and len(chunk) >= chunk_size
IterHasMore(size, n) == size # 0 /\ n >= size

\* What the consumer of the iterator does with a yielded element: nothing
\* when the iterator is driven directly, the loop body of the migration
\* otherwise. The outcomes: the store after it and what it raised.
Consume(p, st, unique, log, i) ==
    CASE p \in Iterators -> {Ok(st)}
      [] p = "migrate_run_partition" -> migrate_run_partition_body(st, i)
      [] p = "migrate_run_start_end" -> migrate_run_start_end_body(st, log, i)
      [] p = "migrate_run_backfill_id" -> migrate_run_backfill_id_body(st, i)
      [] p = "migrate_backfill_job_name_and_tags" ->
            migrate_backfill_job_name_and_tags_body(st, unique, i)
      [] p = "migrate_run_assets" -> migrate_run_assets_body(st, log, i)

\* What an outcome r of a loop body records of the calls made on the way: the
\* storage.add_run_tags call, the run id the event log was queried for
\* (instance.get_run_stats, instance.all_logs).
AddRunTagsCalls(r) == IF "tag_call" \in DOMAIN r THEN <<r.tag_call>> ELSE <<>>

EventLogQueries(r) == IF "log_query" \in DOMAIN r THEN <<r.log_query>> ELSE <<>>

\* The number of `with run_storage.connect()` scopes the loop body enters (and
\* leaves) on element i, when its outcome is r.
ConnectCalls(p, st, i, r) ==
    IF ~relational THEN 0
    ELSE
    CASE p = "migrate_run_start_end" ->
            IF RunOf(st.runs, i).status \in UNSTARTED_RUN_STATUSES THEN 0 ELSE 1
      [] p = "migrate_run_backfill_id" ->
            IF BACKFILL_ID_TAG \notin DOMAIN RunOf(st.runs, i).tags THEN 0 ELSE 1
      [] p = "migrate_backfill_job_name_and_tags" ->
            (IF BackfillOf(st.bulk_actions, i).tags # <<>> THEN 1 ELSE 0)
            + (IF BackfillOf(st.bulk_actions, i).job_name # NULL /\ r.raised = NULL
               THEN 1 ELSE 0)
      [] p = "migrate_run_assets" ->
            IF RunOf(st.runs, i).status \in UNSTARTED_RUN_STATUSES THEN 0 ELSE 1
      [] OTHER -> 0

\* the store becomes st
StoreBecomes(st) ==
    /\ runs' = st.runs
    /\ run_tags' = st.run_tags
    /\ bulk_actions' = st.bulk_actions
    /\ backfill_tags' = st.backfill_tags
    /\ run_assets' = st.run_assets

\* with ExitStack(): if print_fn: run_count = ...; cursor = None; has_more = True
IterStart ==
    /\ pc = "start"
    /\ proc \in Iterators \cup IteratingMigrations
    /\ IF print_fn
         THEN count_calls' = count_calls + 1 /\ progress' = Some(0)
         ELSE count_calls' = count_calls /\ progress' = None
    /\ cursor' = None
    /\ has_more' = TRUE
    /\ pc' = "loop"
    /\ UNCHANGED <<params, store, chunk, idx, yielded, fetches, fetch_lens, runinfo>>
    /\ UNCHANGED calls
    /\ UNCHANGED fetch_cursors
    /\ UNCHANGED peer

\* while has_more: chunk = fetch(cursor, chunk_size); has_more = ...
IterFetch ==
    /\ pc = "loop"
    /\ proc \in Iterators \cup IteratingMigrations
    /\ has_more
    /\ fetches < MaxFetches
    /\ LET c == FetchChunk(IteratorOf(proc), St, cursor, chunk_size)
       IN  /\ chunk' = c
           /\ has_more' = IterHasMore(chunk_size, Len(c))
           /\ fetch_lens' = Append(fetch_lens, Len(c))
    /\ idx' = 1
    /\ fetches' = fetches + 1
    /\ pc' = "chunk"
    /\ UNCHANGED <<params, store, cursor, yielded, count_calls, progress, runinfo>>
    /\ UNCHANGED calls
    /\ fetch_cursors' = Append(fetch_cursors, cursor)
    /\ UNCHANGED peer

\* A variant that yields without moving the cursor.
IterYield_KeepCursor ==
    /\ pc = "chunk"
    /\ proc \in Iterators \cup IteratingMigrations
    /\ idx <= Len(chunk)
    /\ cursor' = cursor
    /\ yielded' = Append(yielded, chunk[idx])
    /\ \E r \in Consume(proc, St, backfill_tags_unique, event_log, chunk[idx]) :
          /\ StoreBecomes(r.st)
          /\ pc' = IF r.raised = NULL THEN "chunk" ELSE "error"
          /\ conn_acquired' = conn_acquired + ConnectCalls(proc, St, chunk[idx], r)
          /\ tag_calls' = tag_calls \o AddRunTagsCalls(r)
          /\ log_queries' = log_queries \o EventLogQueries(r)
    /\ idx' = idx + 1
    /\ UNCHANGED <<params, has_more, chunk, fetches, fetch_lens, count_calls, progress, runinfo>>
    /\ conn_open' = conn_open
    /\ UNCHANGED fetch_cursors
    /\ UNCHANGED peer

\* A variant that moves the cursor to the end of the chunk at the first record.
IterYield_CursorAhead ==
    /\ pc = "chunk"
    /\ proc \in Iterators \cup IteratingMigrations
    /\ idx <= Len(chunk)
    /\ cursor' = Some(ItemId(IteratorOf(proc), St, chunk[Len(chunk)]))
    /\ yielded' = Append(yielded, chunk[idx])
    /\ \E r \in Consume(proc, St, backfill_tags_unique, event_log, chunk[idx]) :
          /\ StoreBecomes(r.st)
          /\ pc' = IF r.raised = NULL THEN "chunk" ELSE "error"
          /\ conn_acquired' = conn_acquired + ConnectCalls(proc, St, chunk[idx], r)
          /\ tag_calls' = tag_calls \o AddRunTagsCalls(r)
          /\ log_queries' = log_queries \o EventLogQueries(r)
    /\ idx' = idx + 1
    /\ UNCHANGED <<params, has_more, chunk, fetches, fetch_lens, count_calls, progress, runinfo>>
    /\ conn_open' = conn_open
    /\ UNCHANGED fetch_cursors
    /\ UNCHANGED peer

\* for run in chunk: cursor = run.run_id; yield run (and the consumer's loop
\* body runs on it; an error it raises ends the iteration)
IterYield ==
    /\ pc = "chunk"
    /\ proc \in Iterators \cup IteratingMigrations
    /\ idx <= Len(chunk)
    /\ cursor' = Some(ItemId(IteratorOf(proc), St, chunk[idx]))
    /\ yielded' = Append(yielded, chunk[idx])
    /\ \E r \in Consume(proc, St, backfill_tags_unique, event_log, chunk[idx]) :
          /\ StoreBecomes(r.st)
          /\ pc' = IF r.raised = NULL THEN "chunk" ELSE "error"
          /\ conn_acquired' = conn_acquired + ConnectCalls(proc, St, chunk[idx], r)
          /\ tag_calls' = tag_calls \o AddRunTagsCalls(r)
          /\ log_queries' = log_queries \o EventLogQueries(r)
    /\ idx' = idx + 1
    /\ UNCHANGED <<params, has_more, chunk, fetches, fetch_lens, count_calls, progress, runinfo>>
    /\ conn_open' = conn_open
    /\ UNCHANGED fetch_cursors
    /\ UNCHANGED peer

\* Mutant of IterChunkEnd: the progress bar is advanced by chunk_size.
IterChunkEnd_AdvanceBySize ==
    /\ pc = "chunk"
    /\ proc \in Iterators \cup IteratingMigrations
    /\ idx > Len(chunk)
    /\ progress' = IF progress = None THEN None ELSE Some(progress[1] + chunk_size)
    /\ pc' = "loop"
    /\ UNCHANGED <<params, store, cursor, has_more, chunk, idx, runinfo>>
    /\ UNCHANGED <<yielded, fetches, fetch_lens, count_calls>>
    /\ UNCHANGED calls
    /\ UNCHANGED fetch_cursors
    /\ UNCHANGED peer

\* the chunk is exhausted: progress.update(len(chunk)), back to the loop test
IterChunkEnd ==
    /\ pc = "chunk"
    /\ proc \in Iterators \cup IteratingMigrations
    /\ idx > Len(chunk)
    /\ progress' = IF progress = None THEN None ELSE Some(progress[1] + Len(chunk))
    /\ pc' = "loop"
    /\ UNCHANGED <<params, store, cursor, has_more, chunk, idx, runinfo>>
    /\ UNCHANGED <<yielded, fetches, fetch_lens, count_calls>>
    /\ UNCHANGED calls
    /\ UNCHANGED fetch_cursors
    /\ UNCHANGED peer

\* while has_more: fails, the generator returns (and the migration with it)
IterReturn ==
    /\ pc = "loop"
    /\ proc \in Iterators \cup IteratingMigrations
    /\ ~has_more
    /\ pc' = "done"
    /\ UNCHANGED <<params, store, cursor, has_more, chunk, idx, history, runinfo>>
    /\ UNCHANGED calls
    /\ UNCHANGED fetch_cursors
    /\ UNCHANGED peer

\* ------------------------------------------- direct iteration of a store

\* The module-level registries, as the module's import leaves them.
InitRegistry ==
    /\ REQUIRED_DATA_MIGRATIONS =
          (RUN_PARTITIONS :> "migrate_run_partition")
          @@ (RUN_REPO_LABEL_TAGS :> "migrate_run_repo_tags")
          @@ (BULK_ACTION_TYPES :> "migrate_bulk_actions")
          @@ (RUN_BACKFILL_ID :> "migrate_run_backfill_id")
          @@ (BACKFILL_JOB_NAME_AND_TAGS :> "migrate_backfill_job_name_and_tags")
    /\ OPTIONAL_DATA_MIGRATIONS =
          (RUN_START_END :> "migrate_run_start_end")
          @@ (RUN_ASSETS :> "migrate_run_assets")

InitLocal ==
    /\ InitRegistry
    /\ pc = "start"
    /\ cursor = None
    /\ has_more = TRUE
    /\ chunk = <<>>
    /\ idx = 1
    /\ yielded = <<>>
    /\ fetches = 0
    /\ fetch_lens = <<>>
    /\ count_calls = 0
    /\ progress = None
    /\ tag_calls = <<>>
    /\ log_queries = <<>>
    /\ conn_open = 0
    /\ conn_acquired = 0
    /\ fetch_cursors = <<>>
    /\ peer = [pc |-> "start", cursor |-> None, has_more |-> TRUE, chunk |-> <<>>,
               idx |-> 1, processed |-> 0]
    /\ invocation = 1
    /\ aborted_store = None
    /\ first_result = None
    /\ store0 = St

InitIter ==
    /\ proc \in Iterators
    /\ chunk_size \in 0..MaxChunkSize
    /\ print_fn \in BOOLEAN
    /\ backfill_tags_unique = TRUE
    /\ relational = TRUE
    /\ \E n \in 0..MaxRecords :
        /\ runs = [i \in 1..n |-> PlainRun(i)]
        /\ bulk_actions = [i \in 1..n |-> PlainBackfill(i)]
        /\ event_log = [i \in 1..n |-> NoEvents]
    /\ run_tags = <<>>
    /\ backfill_tags = <<>>
    /\ run_assets = <<>>
    /\ InitLocal

NextIter ==
    \/ IterStart
    \/ IterFetch
    \/ IterYield
    \/ IterChunkEnd
    \/ IterReturn

SpecIter == InitIter /\ [][NextIter]_vars

\* ------------------------------------------------ migrate_run_repo_tags

\* `if cursor:`
CursorSet(c) == c # None /\ c[1] # 0

\* The storage ids lo..hi of the rows m marks, ascending.
RECURSIVE MatchingIds(_, _, _)
MatchingIds(m, lo, hi) ==
    IF lo > hi THEN <<>>
    ELSE IF lo = hi THEN (IF m[lo] THEN <<lo>> ELSE <<>>)
    ELSE LET mid == (lo + hi) \div 2
         IN  MatchingIds(m, lo, mid) \o MatchingIds(m, mid + 1, hi)

\* A variant of the query without its LIMIT.
FirstMatching_NoLimit(m, limit) == MatchingIds(m, 1, Len(m))

\* ORDER BY id ASC LIMIT limit: the first `limit` storage ids of the rows m marks.
FirstMatching(m, limit) ==
    LET ids == MatchingIds(m, 1, Len(m))
    IN  IF Len(ids) <= limit THEN ids ELSE SubSeq(ids, 1, limit)

\* Mutant of RepoTagsQuery: the cursor is not applied.
RepoTagsQuery_NoCursor(rs, tags, c) ==
    LET labelled == {tags[j].run_id : j \in {k \in 1..Len(tags) : tags[k].key = REPOSITORY_LABEL_TAG}}
        m == [i \in 1..Len(rs) |-> rs[i].run_id \notin labelled]
    IN  FirstMatching(m, CHUNK_SIZE)

\* base_query [.where(RunsTable.c.id > cursor)]: the runs with no
\* repository-label tag row, by ascending id, at most CHUNK_SIZE
RepoTagsQuery(rs, tags, c) ==
    LET labelled == {tags[j].run_id : j \in {k \in 1..Len(tags) : tags[k].key = REPOSITORY_LABEL_TAG}}
        m == [i \in 1..Len(rs) |->
                 /\ rs[i].run_id \notin labelled
                 /\ (CursorSet(c) => i > c[1])]
    IN  FirstMatching(m, CHUNK_SIZE)

\* Mutant of RepoTagsHasMore: a strict comparison.
RepoTagsHasMore_Strict(n) == n > CHUNK_SIZE

\* has_more = len(rows) >= CHUNK_SIZE
RepoTagsHasMore(n) == n >= CHUNK_SIZE

\* cursor = None; has_more = True
migrate_run_repo_tags_start ==
    /\ proc = "migrate_run_repo_tags"
    /\ pc = "start"
    /\ cursor' = None
    /\ has_more' = TRUE
    /\ pc' = IF relational THEN "loop" ELSE "done"
    /\ UNCHANGED <<params, store, chunk, idx, history, runinfo>>
    /\ UNCHANGED calls
    /\ UNCHANGED fetch_cursors
    /\ UNCHANGED peer

\* with run_storage.connect() as conn: rows = conn.execute(query).fetchall()
migrate_run_repo_tags_query ==
    /\ proc = "migrate_run_repo_tags"
    /\ pc = "loop"
    /\ has_more
    /\ LET rows == RepoTagsQuery(runs, run_tags, cursor)
       IN  /\ chunk' = rows
           /\ has_more' = RepoTagsHasMore(Len(rows))
           /\ fetch_lens' = Append(fetch_lens, Len(rows))
    /\ idx' = 1
    /\ fetches' = fetches + 1
    /\ pc' = "chunk"
    /\ UNCHANGED <<params, store, cursor, yielded, count_calls, progress, runinfo>>
    /\ conn_open' = conn_open + 1
    /\ conn_acquired' = conn_acquired + 1
    /\ UNCHANGED <<tag_calls, log_queries>>
    /\ fetch_cursors' = Append(fetch_cursors, cursor)
    /\ UNCHANGED peer

\* for row in rows: run = deserialize_value(...); cursor = row[1]; write_repo_tag
migrate_run_repo_tags_row ==
    /\ proc = "migrate_run_repo_tags"
    /\ pc = "chunk"
    /\ idx <= Len(chunk)
    /\ \E r \in migrate_run_repo_tags_body(St, chunk[idx]) :
          /\ StoreBecomes(r.st)
          /\ pc' = IF r.raised = NULL THEN "chunk" ELSE "error"
          /\ cursor' = IF r.raised = "DeserializationError" THEN cursor ELSE Some(chunk[idx])
    /\ yielded' = Append(yielded, chunk[idx])
    /\ idx' = idx + 1
    /\ UNCHANGED <<params, has_more, chunk, fetches, fetch_lens, count_calls, progress, runinfo>>
    /\ conn_open' = IF pc' = "error" THEN conn_open - 1 ELSE conn_open
    /\ UNCHANGED <<tag_calls, log_queries, conn_acquired>>
    /\ UNCHANGED fetch_cursors
    /\ UNCHANGED peer

\* the rows of the chunk are done: the connection scope is left
migrate_run_repo_tags_chunk_end ==
    /\ proc = "migrate_run_repo_tags"
    /\ pc = "chunk"
    /\ idx > Len(chunk)
    /\ pc' = "loop"
    /\ UNCHANGED <<params, store, cursor, has_more, chunk, idx, history, runinfo>>
    /\ conn_open' = conn_open - 1
    /\ UNCHANGED <<tag_calls, log_queries, conn_acquired>>
    /\ UNCHANGED fetch_cursors
    /\ UNCHANGED peer

\* while has_more: fails, the procedure returns
migrate_run_repo_tags_return ==
    /\ proc = "migrate_run_repo_tags"
    /\ pc = "loop"
    /\ ~has_more
    /\ pc' = "done"
    /\ UNCHANGED <<params, store, cursor, has_more, chunk, idx, history, runinfo>>
    /\ UNCHANGED calls
    /\ UNCHANGED fetch_cursors
    /\ UNCHANGED peer

\* ------------------------------------------------- migrate_bulk_actions

\* Mutant of BulkActionsQuery: the action_type filter dropped.
BulkActionsQuery_NoFilter(tbl, c) ==
    LET m == [i \in 1..Len(tbl) |-> CursorSet(c) => i > c[1]]
    IN  FirstMatching(m, CHUNK_SIZE)

\* base_query [.where(BulkActionsTable.c.id > cursor)]: the rows whose
\* action_type is null, by ascending id, at most CHUNK_SIZE
BulkActionsQuery(tbl, c) ==
    LET m == [i \in 1..Len(tbl) |->
                 /\ tbl[i].action_type = NULL
                 /\ (CursorSet(c) => i > c[1])]
    IN  FirstMatching(m, CHUNK_SIZE)

\* Mutant of BulkActionsHasMore: a strict comparison.
BulkActionsHasMore_Strict(n) == n > CHUNK_SIZE

\* has_more = len(rows) >= CHUNK_SIZE
BulkActionsHasMore(n) == n >= CHUNK_SIZE

\* cursor = None; has_more = True
migrate_bulk_actions_start ==
    /\ proc = "migrate_bulk_actions"
    /\ pc = "start"
    /\ cursor' = None
    /\ has_more' = TRUE
    /\ pc' = IF relational THEN "loop" ELSE "done"
    /\ UNCHANGED <<params, store, chunk, idx, history, runinfo>>
    /\ UNCHANGED calls
    /\ UNCHANGED fetch_cursors
    /\ UNCHANGED peer

\* with run_storage.connect() as conn: rows = conn.execute(query).fetchall()
migrate_bulk_actions_query ==
    /\ proc = "migrate_bulk_actions"
    /\ pc = "loop"
    /\ has_more
    /\ LET rows == BulkActionsQuery(bulk_actions, cursor)
       IN  /\ chunk' = rows
           /\ has_more' = BulkActionsHasMore(Len(rows))
           /\ fetch_lens' = Append(fetch_lens, Len(rows))
    /\ idx' = 1
    /\ fetches' = fetches + 1
    /\ pc' = "chunk"
    /\ UNCHANGED <<params, store, cursor, yielded, count_calls, progress, runinfo>>
    /\ conn_open' = conn_open + 1
    /\ conn_acquired' = conn_acquired + 1
    /\ UNCHANGED <<tag_calls, log_queries>>
    /\ fetch_cursors' = Append(fetch_cursors, cursor)
    /\ UNCHANGED peer

\* for row in rows: backfill = deserialize_value(...); update; cursor = storage_id
migrate_bulk_actions_row ==
    /\ proc = "migrate_bulk_actions"
    /\ pc = "chunk"
    /\ idx <= Len(chunk)
    /\ \E r \in migrate_bulk_actions_body(St, chunk[idx]) :
          /\ StoreBecomes(r.st)
          /\ pc' = IF r.raised = NULL THEN "chunk" ELSE "error"
          /\ cursor' = IF r.raised = NULL THEN Some(chunk[idx]) ELSE cursor
    /\ yielded' = Append(yielded, chunk[idx])
    /\ idx' = idx + 1
    /\ UNCHANGED <<params, has_more, chunk, fetches, fetch_lens, count_calls, progress, runinfo>>
    /\ conn_open' = IF pc' = "error" THEN conn_open - 1 ELSE conn_open
    /\ UNCHANGED <<tag_calls, log_queries, conn_acquired>>
    /\ UNCHANGED fetch_cursors
    /\ UNCHANGED peer

\* the rows of the chunk are done: the connection scope is left
migrate_bulk_actions_chunk_end ==
    /\ proc = "migrate_bulk_actions"
    /\ pc = "chunk"
    /\ idx > Len(chunk)
    /\ pc' = "loop"
    /\ UNCHANGED <<params, store, cursor, has_more, chunk, idx, history, runinfo>>
    /\ conn_open' = conn_open - 1
    /\ UNCHANGED <<tag_calls, log_queries, conn_acquired>>
    /\ UNCHANGED fetch_cursors
    /\ UNCHANGED peer

\* while has_more: fails, the procedure returns
migrate_bulk_actions_return ==
    /\ proc = "migrate_bulk_actions"
    /\ pc = "loop"
    /\ ~has_more
    /\ pc' = "done"
    /\ UNCHANGED <<params, store, cursor, has_more, chunk, idx, history, runinfo>>
    /\ UNCHANGED calls
    /\ UNCHANGED fetch_cursors
    /\ UNCHANGED peer

\* ------------------------------------------- invocations of a migration

\* Invocations of a procedure on one store: the first and its re-runs.
MaxInvocations == 2

\* The procedure is invoked again, from scratch, after it returned, was
\* aborted or raised: nothing of the earlier invocation but the store is kept.
Reinvoke ==
    /\ pc \in {"done", "aborted", "error"}
    /\ invocation < MaxInvocations
    /\ invocation' = invocation + 1
    /\ first_result' = IF invocation = 1 /\ pc = "done" THEN Some(St) ELSE first_result
    /\ pc' = "start"
    /\ cursor' = None
    /\ has_more' = TRUE
    /\ chunk' = <<>>
    /\ idx' = 1
    /\ yielded' = <<>>
    /\ fetches' = 0
    /\ fetch_lens' = <<>>
    /\ count_calls' = 0
    /\ progress' = None
    /\ tag_calls' = <<>>
    /\ log_queries' = <<>>
    /\ conn_open' = 0
    /\ conn_acquired' = 0
    /\ fetch_cursors' = <<>>
    /\ UNCHANGED <<params, store, aborted_store, store0>>
    /\ UNCHANGED peer

\* The process running the first invocation dies (crash, cancellation) at any
\* point after it started: the writes already applied stay in the store.
Abort ==
    /\ pc \in {"loop", "chunk"}
    /\ invocation = 1
    /\ pc' = "aborted"
    /\ aborted_store' = Some(St)
    /\ UNCHANGED <<params, store, cursor, has_more, chunk, idx, history>>
    /\ UNCHANGED <<invocation, store0, first_result>>
    /\ UNCHANGED calls
    /\ UNCHANGED fetch_cursors
    /\ UNCHANGED peer

\* ------------------------------------------------------- initial stores

\* A store is empty, has up to MaxSmallRows rows, or has about one or two
\* chunks of rows. Row i of a store built from a template t has the shape
\* t[((i - 1) % Len(t)) + 1].
MaxSmallRows == 2

TemplateLen == 2

SmallSizes == 0..MaxSmallRows

LargeSizes == {CHUNK_SIZE, CHUNK_SIZE + 1, 2 * CHUNK_SIZE + 1}

Sizes == SmallSizes \cup LargeSizes

Templates(shapes) == [1..TemplateLen -> {shapes[k] : k \in 1..Len(shapes)}]

ShapeAt(t, i) == t[((i - 1) % Len(t)) + 1]

\* Shapes of a run for the repository-label backfill: whether it has a
\* remote_job_origin, and the tag row it starts with (none, a repository-label
\* row, a row of another key).
RepoTagsShapes ==
    <<[origin |-> NULL, tag |-> NULL, corrupt |-> FALSE],
      [origin |-> "repoA", tag |-> NULL, corrupt |-> FALSE],
      [origin |-> "repoA", tag |-> REPOSITORY_LABEL_TAG, corrupt |-> FALSE],
      [origin |-> "repoA", tag |-> PARTITION_NAME_TAG, corrupt |-> FALSE]>>

\* Runs whose run_body does not unpack to a DagsterRun, without and with a
\* repository-label row.
RepoTagsCorruptShapes ==
    <<[origin |-> "repoA", tag |-> NULL, corrupt |-> TRUE],
      [origin |-> "repoA", tag |-> REPOSITORY_LABEL_TAG, corrupt |-> TRUE]>>

\* The shapes without a repository-label row: every such run is selected.
UnlabelledShapes == SelectSeq(RepoTagsShapes, LAMBDA sh : sh.tag # REPOSITORY_LABEL_TAG)

InitRepoTagsStore(sizes, templates) ==
    \E n \in sizes, t \in templates :
        /\ runs = [i \in 1..n |->
                      LET row == RunRow(i, "SUCCESS", ShapeAt(t, i).origin, NoTags,
                                        NULL, NULL, NULL)
                      IN  IF ShapeAt(t, i).corrupt
                          THEN [row EXCEPT !.run_body.class = "Unknown"]
                          ELSE row]
        /\ run_tags =
              LET all == [i \in 1..n |-> [run_id |-> i, key |-> ShapeAt(t, i).tag,
                                          value |-> "stale"]]
              IN  SelectSeq(all, LAMBDA r : r.key # NULL)
        /\ event_log = [i \in 1..n |-> NoEvents]
        /\ bulk_actions = <<>>
        /\ backfill_tags = <<>>
        /\ run_assets = <<>>

\* Shapes of a bulk-actions row: its key (its own, or one it shares with
\* other rows), the selector id and action type of its body, and whether its
\* columns are populated already (with values that differ from the body's).
BulkActionsShapes ==
    <<[key |-> "own", sel |-> "selA", ty |-> "PARTITION_BACKFILL", populated |-> FALSE,
       corrupt |-> FALSE],
      [key |-> "shared", sel |-> "selA", ty |-> "PARTITION_BACKFILL", populated |-> FALSE,
       corrupt |-> FALSE],
      [key |-> "shared", sel |-> "selB", ty |-> "MULTI_RUN_ASSET_ACTION", populated |-> FALSE,
       corrupt |-> FALSE],
      [key |-> "own", sel |-> "selB", ty |-> "PARTITION_BACKFILL", populated |-> TRUE,
       corrupt |-> FALSE]>>

\* A row whose body does not unpack to a PartitionBackfill.
BulkActionsCorruptShapes ==
    <<[key |-> "own", sel |-> "selA", ty |-> "PARTITION_BACKFILL", populated |-> FALSE,
       corrupt |-> TRUE]>>

\* The shapes with a null action_type: every such row is selected.
UnpopulatedShapes == SelectSeq(BulkActionsShapes, LAMBDA sh : ~sh.populated)

BulkActionsRowOf(i, sh) ==
    LET row == BulkRow(IF sh.key = "own" THEN i ELSE 0, sh.sel, sh.ty, <<>>, NULL,
                       IF sh.populated THEN "selOld" ELSE NULL,
                       IF sh.populated THEN "MULTI_RUN_ASSET_ACTION" ELSE NULL,
                       NULL)
    IN  IF sh.corrupt THEN [row EXCEPT !.body.class = "Unknown"] ELSE row

InitBulkActionsStore(sizes, templates) ==
    \E n \in sizes, t \in templates :
        /\ bulk_actions = [i \in 1..n |-> BulkActionsRowOf(i, ShapeAt(t, i))]
        /\ runs = <<>>
        /\ run_tags = <<>>
        /\ event_log = <<>>
        /\ backfill_tags = <<>>
        /\ run_assets = <<>>

\* Shapes of a run for the start/end reconstruction: its status, the
\* start_time and end_time stored, and those of the event log's statistics.
StartEndShapes ==
    <<[status |-> "SUCCESS", st |-> NULL, et |-> NULL, log_st |-> "t1", log_et |-> "t2"],
      [status |-> "SUCCESS", st |-> "local1", et |-> "local2", log_st |-> "t1", log_et |-> "t2"],
      [status |-> "STARTING", st |-> NULL, et |-> NULL, log_st |-> "t1", log_et |-> NULL],
      [status |-> "STARTED", st |-> "t1", et |-> "local2", log_st |-> "t1", log_et |-> NULL]>>

InitStartEndStore(sizes, templates) ==
    \E n \in sizes, t \in templates :
        /\ runs = [i \in 1..n |->
                      RunRow(i, ShapeAt(t, i).status, NULL, NoTags,
                             ShapeAt(t, i).st, ShapeAt(t, i).et, NULL)]
        /\ event_log = [i \in 1..n |->
                           LogEntry(ShapeAt(t, i).log_st, ShapeAt(t, i).log_et, <<>>)]
        /\ run_tags = <<>>
        /\ bulk_actions = <<>>
        /\ backfill_tags = <<>>
        /\ run_assets = <<>>

\* Shapes of a run for the backfill-id backfill: the value of its backfill-id
\* tag (NULL: it carries none) and its backfill_id column.
BackfillIdShapes ==
    <<[tag |-> "bf1", col |-> NULL],
      [tag |-> NULL, col |-> NULL],
      [tag |-> "bf2", col |-> "bfOld"],
      [tag |-> NULL, col |-> "bfOld"]>>

InitBackfillIdStore(sizes, templates) ==
    \E n \in sizes, t \in templates :
        /\ runs = [i \in 1..n |->
                      RunRow(i, "SUCCESS", NULL, Tags(FALSE, FALSE, ShapeAt(t, i).tag),
                             NULL, NULL, ShapeAt(t, i).col)]
        /\ event_log = [i \in 1..n |-> NoEvents]
        /\ run_tags = <<>>
        /\ bulk_actions = <<>>
        /\ backfill_tags = <<>>
        /\ run_assets = <<>>

\* Shapes of a run for the run-assets reconstruction: its status, the asset
\* keys of its asset events, and the asset key the run-assets table holds
\* for it already (None: no row).
RunAssetsShapes ==
    <<[status |-> "SUCCESS", events |-> <<<<"a">>, <<"b">>, <<"a">>, None>>, prior |-> None],
      [status |-> "SUCCESS", events |-> <<>>, prior |-> None],
      [status |-> "QUEUED", events |-> <<<<"a">>>>, prior |-> None],
      [status |-> "SUCCESS", events |-> <<<<"a">>, <<"b">>>>, prior |-> <<"a">>]>>

\* The shapes of the stores of a chunk and more: a run with several asset
\* keys multiplies the orders its rows can be inserted in, so these runs
\* have one.
RunAssetsLargeShapes ==
    <<[status |-> "SUCCESS", events |-> <<<<"a">>, None, <<"a">>>>, prior |-> None],
      [status |-> "SUCCESS", events |-> <<>>, prior |-> None],
      [status |-> "QUEUED", events |-> <<<<"a">>>>, prior |-> None],
      [status |-> "SUCCESS", events |-> <<<<"a">>>>, prior |-> <<"a">>]>>

InitRunAssetsStore(sizes, templates) ==
    \E n \in sizes, t \in templates :
        /\ runs = [i \in 1..n |->
                      RunRow(i, ShapeAt(t, i).status, NULL, NoTags, NULL, NULL, NULL)]
        /\ event_log = [i \in 1..n |-> LogEntry(NULL, NULL, ShapeAt(t, i).events)]
        /\ run_assets =
              LET all == [i \in 1..n |->
                             [run_id |-> i,
                              asset_key |-> IF ShapeAt(t, i).prior = None THEN None
                                            ELSE to_string(ShapeAt(t, i).prior)]]
              IN  SelectSeq(all, LAMBDA r : r.asset_key # None)
        /\ run_tags = <<>>
        /\ bulk_actions = <<>>
        /\ backfill_tags = <<>>

\* Shapes of a backfill for the job-name/tags backfill: the tags and the job
\* name of its body, and the job_name column of its row.
BackfillTagsShapes ==
    <<[tags |-> <<<<"k1", "v1">>, <<"k2", "v2">>>>, job_name |-> "jobA", col |-> NULL],
      [tags |-> <<>>, job_name |-> NULL, col |-> "jobOld"],
      [tags |-> <<<<"k1", "v1">>>>, job_name |-> NULL, col |-> NULL],
      [tags |-> <<>>, job_name |-> "jobA", col |-> NULL]>>

InitBackfillTagsStore(sizes, templates) ==
    \E n \in sizes, t \in templates :
        /\ bulk_actions = [i \in 1..n |->
                              BulkRow(i, "selA", "PARTITION_BACKFILL", ShapeAt(t, i).tags,
                                      ShapeAt(t, i).job_name, "selA", "PARTITION_BACKFILL",
                                      ShapeAt(t, i).col)]
        /\ runs = <<>>
        /\ run_tags = <<>>
        /\ event_log = <<>>
        /\ backfill_tags = <<>>
        /\ run_assets = <<>>

\* Shapes of a run for the partition-tag backfill: whether it carries the
\* partition-name and the partition-set tag, the value of its backfill-id tag
\* (NULL: none), and whether the tag index holds a row for its partition name
\* already.
PartitionShapes ==
    <<[pn |-> TRUE, ps |-> TRUE, bf |-> NULL, indexed |-> FALSE],
      [pn |-> TRUE, ps |-> FALSE, bf |-> "bf1", indexed |-> FALSE],
      [pn |-> FALSE, ps |-> TRUE, bf |-> NULL, indexed |-> FALSE],
      [pn |-> TRUE, ps |-> TRUE, bf |-> "bf1", indexed |-> TRUE],
      [pn |-> FALSE, ps |-> FALSE, bf |-> NULL, indexed |-> FALSE]>>

InitPartitionStore(sizes, templates) ==
    \E n \in sizes, t \in templates :
        /\ runs = [i \in 1..n |->
                      RunRow(i, "SUCCESS", NULL,
                             Tags(ShapeAt(t, i).pn, ShapeAt(t, i).ps, ShapeAt(t, i).bf),
                             NULL, NULL, NULL)]
        /\ run_tags =
              LET all == [i \in 1..n |->
                             [run_id |-> i,
                              key |-> IF ShapeAt(t, i).indexed THEN PARTITION_NAME_TAG ELSE NULL,
                              value |-> "stale"]]
              IN  SelectSeq(all, LAMBDA r : r.key # NULL)
        /\ event_log = [i \in 1..n |-> NoEvents]
        /\ bulk_actions = <<>>
        /\ backfill_tags = <<>>
        /\ run_assets = <<>>

\* A migration is invoked with the default chunk size.
InitRun(callbacks, unique) ==
    /\ chunk_size = CHUNK_SIZE
    /\ print_fn \in callbacks
    /\ backfill_tags_unique \in unique
    /\ relational = TRUE
    /\ InitLocal

\* --------------------------------------------- one migration, re-invoked

InitRepoTags ==
    /\ proc = "migrate_run_repo_tags"
    /\ \/ InitRepoTagsStore(SmallSizes, Templates(RepoTagsShapes \o RepoTagsCorruptShapes))
       \/ InitRepoTagsStore(LargeSizes, Templates(RepoTagsShapes))
    /\ InitRun(BOOLEAN, {TRUE})

NextRepoTags ==
    \/ migrate_run_repo_tags_start
    \/ migrate_run_repo_tags_query
    \/ migrate_run_repo_tags_row
    \/ migrate_run_repo_tags_chunk_end
    \/ migrate_run_repo_tags_return
    \/ Reinvoke

SpecRepoTags == InitRepoTags /\ [][NextRepoTags]_vars

InitBulkActions ==
    /\ proc = "migrate_bulk_actions"
    /\ InitBulkActionsStore(Sizes, Templates(BulkActionsShapes))
    /\ InitRun(BOOLEAN, {TRUE})

NextBulkActions ==
    \/ migrate_bulk_actions_start
    \/ migrate_bulk_actions_query
    \/ migrate_bulk_actions_row
    \/ migrate_bulk_actions_chunk_end
    \/ migrate_bulk_actions_return
    \/ Reinvoke

SpecBulkActions == InitBulkActions /\ [][NextBulkActions]_vars

NextIterating ==
    \/ IterStart
    \/ IterFetch
    \/ IterYield
    \/ IterChunkEnd
    \/ IterReturn
    \/ Reinvoke

InitStartEnd ==
    /\ proc = "migrate_run_start_end"
    /\ InitStartEndStore(Sizes, Templates(StartEndShapes))
    /\ InitRun(BOOLEAN, {TRUE})

SpecStartEnd == InitStartEnd /\ [][NextIterating]_vars

InitBackfillId ==
    /\ proc = "migrate_run_backfill_id"
    /\ InitBackfillIdStore(Sizes, Templates(BackfillIdShapes))
    /\ InitRun(BOOLEAN, {TRUE})

SpecBackfillId == InitBackfillId /\ [][NextIterating]_vars

InitRunAssets ==
    /\ proc = "migrate_run_assets"
    /\ \/ InitRunAssetsStore(SmallSizes, Templates(RunAssetsShapes))
       \/ InitRunAssetsStore(LargeSizes, Templates(RunAssetsLargeShapes))
    /\ InitRun(BOOLEAN, {TRUE})

SpecRunAssets == InitRunAssets /\ [][NextIterating]_vars

InitPartition ==
    /\ proc = "migrate_run_partition"
    /\ \/ InitPartitionStore(SmallSizes, Templates(PartitionShapes))
       \/ InitPartitionStore(LargeSizes, {PartitionShapes})
    /\ InitRun(BOOLEAN, {TRUE})

SpecPartition == InitPartition /\ [][NextIterating]_vars

InitBackfillTags ==
    /\ proc = "migrate_backfill_job_name_and_tags"
    /\ InitBackfillTagsStore(Sizes, Templates(BackfillTagsShapes))
    /\ InitRun(BOOLEAN, BOOLEAN)

SpecBackfillTags == InitBackfillTags /\ [][NextIterating]_vars

\* ------------------------------------- one invocation, run to its end

\* The chunk a migration reads at cursor c.
ChunkOf(p, st, c) ==
    CASE p = "migrate_run_repo_tags" -> RepoTagsQuery(st.runs, st.run_tags, c)
      [] p = "migrate_bulk_actions" -> BulkActionsQuery(st.bulk_actions, c)
      [] OTHER -> FetchChunk(IteratorOf(p), st, c, CHUNK_SIZE)

\* Its test for another chunk, after one of n rows.
HasMoreOf(p, n) ==
    CASE p = "migrate_run_repo_tags" -> RepoTagsHasMore(n)
      [] p = "migrate_bulk_actions" -> BulkActionsHasMore(n)
      [] OTHER -> IterHasMore(CHUNK_SIZE, n)

\* The cursor after row i.
CursorAfter(p, st, i) ==
    IF p \in {"migrate_run_repo_tags", "migrate_bulk_actions"} THEN Some(i)
    ELSE Some(ItemId(IteratorOf(p), st, i))

\* The outcomes of its loop body on row i.
BodyOf(p, st, unique, log, i) ==
    CASE p = "migrate_run_repo_tags" -> migrate_run_repo_tags_body(st, i)
      [] p = "migrate_bulk_actions" -> migrate_bulk_actions_body(st, i)
      [] OTHER -> Consume(p, st, unique, log, i)

\* The element of a one-element set.
Only(S) == CHOOSE x \in S : TRUE

\* The store after the loop body ran on rows[lo..hi] in order, for a
\* migration whose loop body has one outcome.
RECURSIVE FoldChunk(_, _, _, _, _, _)
FoldChunk(p, st, log, rows, lo, hi) ==
    IF lo > hi THEN st
    ELSE IF lo = hi THEN Only({Only(BodyOf(p, x, TRUE, log, rows[lo])).st : x \in {st}})
    ELSE Only({FoldChunk(p, x, log, rows, ((lo + hi) \div 2) + 1, hi) :
                  x \in {FoldChunk(p, st, log, rows, lo, (lo + hi) \div 2)}})

\* The store when an invocation of p, started on st at cursor c, returns.
RECURSIVE RunLoop(_, _, _, _)
RunLoop(p, st, log, c) ==
    Only(UNION {UNION {{IF HasMoreOf(p, Len(rows))
                        THEN RunLoop(p, after, log, CursorAfter(p, x, rows[Len(rows)]))
                        ELSE after :
                            after \in {FoldChunk(p, x, log, rows, 1, Len(rows))}} :
                       rows \in {ChunkOf(p, x, c)}} :
                x \in {st}})

\* The store one uninterrupted invocation of p produces from st.
Uninterrupted(p, st, log) == RunLoop(p, st, log, None)

\* --------------------------------------- inserts that meet a collision

\* Rows another process may insert while a migration runs.
MaxOtherWrites == 1

\* The rows of a table another process wrote.
OtherRows(tbl) == SelectSeq(tbl, LAMBDA r : r.value = "other")

\* Another process labels a run of the chunk migrate_run_repo_tags has just
\* fetched (its first, second or last run), before the run's turn: the race
\* of the spec's "label already present, e.g., due to a race". The chunk is a
\* snapshot, so what matters is which of its runs are labelled before their
\* turn, not when.
OtherWriterLabels ==
    /\ proc = "migrate_run_repo_tags"
    /\ pc = "chunk"
    /\ idx = 1
    /\ Len(OtherRows(run_tags)) < MaxOtherWrites
    /\ \E k \in {1, 2, Len(chunk)} \cap (1..Len(chunk)) :
          /\ \A j \in 1..Len(run_tags) :
                ~(run_tags[j].run_id = runs[chunk[k]].run_id
                  /\ run_tags[j].key = REPOSITORY_LABEL_TAG)
          /\ run_tags' = Append(run_tags, [run_id |-> runs[chunk[k]].run_id,
                                           key |-> REPOSITORY_LABEL_TAG,
                                           value |-> "other"])
    /\ UNCHANGED <<params, runs, bulk_actions, backfill_tags, run_assets>>
    /\ UNCHANGED <<local, history, runinfo>>
    /\ UNCHANGED calls
    /\ UNCHANGED fetch_cursors
    /\ UNCHANGED peer

\* migrate_run_repo_tags next to a process that labels runs, and
\* migrate_run_assets on stores in which runs hold asset rows already.
InitConflict ==
    /\ \/ /\ proc = "migrate_run_repo_tags"
          /\ \/ InitRepoTagsStore(SmallSizes, Templates(RepoTagsShapes))
             \/ InitRepoTagsStore({CHUNK_SIZE + 1}, {RepoTagsShapes, UnlabelledShapes})
       \/ /\ proc = "migrate_run_assets"
          /\ \/ InitRunAssetsStore(SmallSizes, Templates(RunAssetsShapes))
             \/ InitRunAssetsStore({CHUNK_SIZE + 1}, {RunAssetsLargeShapes})
    /\ InitRun({FALSE}, {TRUE})

NextConflict ==
    \/ migrate_run_repo_tags_start
    \/ migrate_run_repo_tags_query
    \/ migrate_run_repo_tags_row
    \/ migrate_run_repo_tags_chunk_end
    \/ migrate_run_repo_tags_return
    \/ IterStart
    \/ IterFetch
    \/ IterYield
    \/ IterChunkEnd
    \/ IterReturn
    \/ OtherWriterLabels

SpecConflict == InitConflict /\ [][NextConflict]_vars

\* ------------------- two processes running migrate_run_repo_tags at once

\* The second process: cursor = None; has_more = True
PeerStart ==
    /\ proc = "migrate_run_repo_tags"
    /\ peer.pc = "start"
    /\ peer' = [peer EXCEPT !.pc = IF relational THEN "loop" ELSE "done",
                            !.cursor = None, !.has_more = TRUE]
    /\ UNCHANGED <<params, store, local, history, runinfo, calls, fetch_cursors>>

\* with run_storage.connect() as conn: rows = conn.execute(query).fetchall()
PeerQuery ==
    /\ proc = "migrate_run_repo_tags"
    /\ peer.pc = "loop"
    /\ peer.has_more
    /\ LET rows == RepoTagsQuery(runs, run_tags, peer.cursor)
       IN  peer' = [peer EXCEPT !.pc = "chunk", !.chunk = rows, !.idx = 1,
                                !.has_more = RepoTagsHasMore(Len(rows))]
    /\ UNCHANGED <<params, store, local, history, runinfo, calls, fetch_cursors>>

\* for row in rows: run = deserialize_value(...); cursor = row[1]; write_repo_tag
PeerRow ==
    /\ proc = "migrate_run_repo_tags"
    /\ peer.pc = "chunk"
    /\ peer.idx <= Len(peer.chunk)
    /\ \E r \in migrate_run_repo_tags_body(St, peer.chunk[peer.idx]) :
          /\ StoreBecomes(r.st)
          /\ peer' = [peer EXCEPT
                         !.pc = IF r.raised = NULL THEN "chunk" ELSE "error",
                         !.cursor = IF r.raised = "DeserializationError" THEN @
                                    ELSE Some(peer.chunk[peer.idx]),
                         !.idx = @ + 1,
                         !.processed = @ + 1]
    /\ UNCHANGED <<params, local, history, runinfo, calls, fetch_cursors>>

\* the rows of the chunk are done: the connection scope is left
PeerChunkEnd ==
    /\ proc = "migrate_run_repo_tags"
    /\ peer.pc = "chunk"
    /\ peer.idx > Len(peer.chunk)
    /\ peer' = [peer EXCEPT !.pc = "loop"]
    /\ UNCHANGED <<params, store, local, history, runinfo, calls, fetch_cursors>>

\* while has_more: fails, the procedure returns
PeerReturn ==
    /\ proc = "migrate_run_repo_tags"
    /\ peer.pc = "loop"
    /\ ~peer.has_more
    /\ peer' = [peer EXCEPT !.pc = "done"]
    /\ UNCHANGED <<params, store, local, history, runinfo, calls, fetch_cursors>>

\* A store of more than a chunk of unlabelled runs of which only the two
\* around the chunk boundary have a remote_job_origin.
SparseOrigins ==
    [i \in 1..(CHUNK_SIZE + 1) |->
        [origin |-> IF i >= CHUNK_SIZE THEN "repoA" ELSE NULL,
         tag |-> NULL, corrupt |-> FALSE]]

InitTwo ==
    /\ proc = "migrate_run_repo_tags"
    /\ \/ InitRepoTagsStore(SmallSizes, Templates(RepoTagsShapes))
       \/ InitRepoTagsStore({CHUNK_SIZE + 1}, {SparseOrigins})
    /\ InitRun({FALSE}, {TRUE})

NextTwo ==
    \/ migrate_run_repo_tags_start
    \/ migrate_run_repo_tags_query
    \/ migrate_run_repo_tags_row
    \/ migrate_run_repo_tags_chunk_end
    \/ migrate_run_repo_tags_return
    \/ PeerStart
    \/ PeerQuery
    \/ PeerRow
    \/ PeerChunkEnd
    \/ PeerReturn

SpecTwo == InitTwo /\ [][NextTwo]_vars

\* --------------------------------- the two migrations that query by id

InitScan ==
    /\ \/ /\ proc = "migrate_run_repo_tags"
          /\ \/ InitRepoTagsStore(SmallSizes, Templates(RepoTagsShapes))
             \/ InitRepoTagsStore(LargeSizes, {RepoTagsShapes, UnlabelledShapes})
       \/ /\ proc = "migrate_bulk_actions"
          /\ \/ InitBulkActionsStore(SmallSizes, Templates(BulkActionsShapes))
             \/ InitBulkActionsStore(LargeSizes, {BulkActionsShapes, UnpopulatedShapes})
    /\ InitRun(BOOLEAN, {TRUE})

NextScan ==
    \/ migrate_run_repo_tags_start
    \/ migrate_run_repo_tags_query
    \/ migrate_run_repo_tags_row
    \/ migrate_run_repo_tags_chunk_end
    \/ migrate_run_repo_tags_return
    \/ migrate_bulk_actions_start
    \/ migrate_bulk_actions_query
    \/ migrate_bulk_actions_row
    \/ migrate_bulk_actions_chunk_end
    \/ migrate_bulk_actions_return

SpecScan == InitScan /\ [][NextScan]_vars

\* ------------------------------------------ runs that have not started

\* Runs of each unstarted status that have stored times and statistics in the
\* event log, or asset events and no run-asset row.
UnstartedStartEndShapes ==
    <<[status |-> "QUEUED", st |-> "local1", et |-> NULL, log_st |-> "t1", log_et |-> "t2"],
      [status |-> "NOT_STARTED", st |-> NULL, et |-> NULL, log_st |-> "t1", log_et |-> "t2"],
      [status |-> "MANAGED", st |-> "local1", et |-> "local2", log_st |-> NULL, log_et |-> NULL]>>

UnstartedRunAssetsShapes ==
    <<[status |-> "NOT_STARTED", events |-> <<<<"a">>>>, prior |-> <<"b">>],
      [status |-> "MANAGED", events |-> <<<<"b">>>>, prior |-> None],
      [status |-> "STARTING", events |-> <<<<"a">>>>, prior |-> None]>>

InitUnstarted ==
    /\ \/ /\ proc = "migrate_run_start_end"
          /\ \/ InitStartEndStore(SmallSizes,
                                  Templates(StartEndShapes \o UnstartedStartEndShapes))
             \/ InitStartEndStore({CHUNK_SIZE + 1}, {StartEndShapes \o UnstartedStartEndShapes})
       \/ /\ proc = "migrate_run_assets"
          /\ \/ InitRunAssetsStore(SmallSizes,
                                   Templates(RunAssetsShapes \o UnstartedRunAssetsShapes))
             \/ InitRunAssetsStore({CHUNK_SIZE + 1},
                                   {RunAssetsLargeShapes \o UnstartedRunAssetsShapes})
    /\ InitRun(BOOLEAN, {TRUE})

SpecUnstarted == InitUnstarted /\ [][NextIterating]_vars

\* ------------------------------- the migrations on either kind of storage

Migrations ==
    {"migrate_run_partition", "migrate_run_start_end", "migrate_run_repo_tags",
     "migrate_bulk_actions", "migrate_run_backfill_id",
     "migrate_backfill_job_name_and_tags", "migrate_run_assets"}

\* Each migration, called on a SqlRunStorage or on a RunStorage of another
\* class that holds the same records.
InitBackend ==
    /\ \/ /\ proc = "migrate_run_partition"
          /\ \/ InitPartitionStore(SmallSizes, Templates(PartitionShapes))
             \/ InitPartitionStore({CHUNK_SIZE + 1}, {PartitionShapes})
       \/ /\ proc = "migrate_run_start_end"
          /\ \/ InitStartEndStore(SmallSizes, Templates(StartEndShapes))
             \/ InitStartEndStore({CHUNK_SIZE + 1}, {StartEndShapes})
       \/ /\ proc = "migrate_run_repo_tags"
          /\ \/ InitRepoTagsStore(SmallSizes, Templates(RepoTagsShapes))
             \/ InitRepoTagsStore({CHUNK_SIZE + 1}, {RepoTagsShapes})
       \/ /\ proc = "migrate_bulk_actions"
          /\ \/ InitBulkActionsStore(SmallSizes, Templates(BulkActionsShapes))
             \/ InitBulkActionsStore({CHUNK_SIZE + 1}, {BulkActionsShapes})
       \/ /\ proc = "migrate_run_backfill_id"
          /\ \/ InitBackfillIdStore(SmallSizes, Templates(BackfillIdShapes))
             \/ InitBackfillIdStore({CHUNK_SIZE + 1}, {BackfillIdShapes})
       \/ /\ proc = "migrate_backfill_job_name_and_tags"
          /\ \/ InitBackfillTagsStore(SmallSizes, Templates(BackfillTagsShapes))
             \/ InitBackfillTagsStore({CHUNK_SIZE + 1}, {BackfillTagsShapes})
       \/ /\ proc = "migrate_run_assets"
          /\ \/ InitRunAssetsStore(SmallSizes, Templates(RunAssetsShapes))
             \/ InitRunAssetsStore({CHUNK_SIZE + 1}, {RunAssetsLargeShapes})
    /\ chunk_size = CHUNK_SIZE
    /\ print_fn \in BOOLEAN
    /\ backfill_tags_unique = TRUE
    /\ relational \in BOOLEAN
    /\ InitLocal

NextBackend ==
    \/ migrate_run_repo_tags_start
    \/ migrate_run_repo_tags_query
    \/ migrate_run_repo_tags_row
    \/ migrate_run_repo_tags_chunk_end
    \/ migrate_run_repo_tags_return
    \/ migrate_bulk_actions_start
    \/ migrate_bulk_actions_query
    \/ migrate_bulk_actions_row
    \/ migrate_bulk_actions_chunk_end
    \/ migrate_bulk_actions_return
    \/ IterStart
    \/ IterFetch
    \/ IterYield
    \/ IterChunkEnd
    \/ IterReturn

SpecBackend == InitBackend /\ [][NextBackend]_vars

\* The migrations on the stores above and on stores of more than two chunks
\* of rows that the two id-ordered queries select.
InitWorkingSet ==
    \/ InitBackend
    \/ /\ proc = "migrate_run_repo_tags"
       /\ InitRepoTagsStore({2 * CHUNK_SIZE + 1}, {UnlabelledShapes})
       /\ InitRun(BOOLEAN, {TRUE})
    \/ /\ proc = "migrate_bulk_actions"
       /\ InitBulkActionsStore({2 * CHUNK_SIZE + 1}, {UnpopulatedShapes})
       /\ InitRun(BOOLEAN, {TRUE})

SpecWorkingSet == InitWorkingSet /\ [][NextBackend]_vars

\* ------------------------------ records inserted while an iterator runs

MaxInserts == 2

\* The table the procedure's iterator reads.
IterTable(st) ==
    IF IteratorOf(proc) = "chunked_backfill_iterator" THEN st.bulk_actions ELSE st.runs

\* Position, in the order the storage returns rows, of the row the cursor names.
CursorPos ==
    IF IteratorOf(proc) = "chunked_backfill_iterator"
      THEN BackfillPos(bulk_actions, cursor)
      ELSE RunPos(runs, cursor)

InsertAt(tbl, p, row) == SubSeq(tbl, 1, p - 1) \o <<row>> \o SubSeq(tbl, p, Len(tbl))

\* The rows a sequence of positions names, once a row has been put at p.
Shift(seq, p) == [k \in DOMAIN seq |-> IF seq[k] >= p THEN seq[k] + 1 ELSE seq[k]]

\* Another process inserts a record that sorts after the iterator's cursor:
\* anywhere after the row the cursor names, the end of the table included.
ConcurrentInsert ==
    /\ proc \in Iterators
    /\ pc \in {"loop", "chunk"}
    /\ Len(IterTable(St)) < Len(IterTable(store0)) + MaxInserts
    /\ \E p \in (CursorPos + 1)..(Len(IterTable(St)) + 1) :
          /\ IF IteratorOf(proc) = "chunked_backfill_iterator"
               THEN /\ bulk_actions' = InsertAt(bulk_actions, p, PlainBackfill(Len(bulk_actions) + 1))
                    /\ runs' = runs
               ELSE /\ runs' = InsertAt(runs, p, PlainRun(Len(runs) + 1))
                    /\ bulk_actions' = bulk_actions
          /\ chunk' = Shift(chunk, p)
          /\ yielded' = Shift(yielded, p)
    /\ UNCHANGED <<params, run_tags, backfill_tags, run_assets, runinfo>>
    /\ UNCHANGED <<pc, cursor, has_more, idx, fetches, fetch_lens, count_calls, progress>>
    /\ UNCHANGED calls
    /\ UNCHANGED fetch_cursors
    /\ UNCHANGED peer

NextInsert ==
    \/ IterStart
    \/ IterFetch
    \/ IterYield
    \/ IterChunkEnd
    \/ IterReturn
    \/ ConcurrentInsert

\* The stores leave room for the inserted records within MaxRecords.
InitInsert ==
    /\ InitIter
    /\ Len(runs) + MaxInserts <= MaxRecords

SpecInsert == InitInsert /\ [][NextInsert]_vars

\* The generator is resumed by a consumer that keeps pulling, and each step
\* between two yields is taken; the other process inserts when it pleases,
\* MaxInserts records at most.
SpecInsertFair ==
    /\ InitInsert
    /\ [][NextInsert]_vars
    /\ WF_vars(IterStart \/ IterFetch \/ IterYield \/ IterChunkEnd \/ IterReturn)

\* ------------------------------------- statements that raise an error

\* A fetch raises a storage error (connection loss, a body the storage cannot
\* deserialize): nothing in the procedures catches it, the invocation ends.
StorageErrorOnFetch ==
    /\ pc = "loop"
    /\ has_more
    /\ fetches' = fetches + 1
    /\ pc' = "error"
    /\ UNCHANGED <<params, store, cursor, has_more, chunk, idx, runinfo>>
    /\ UNCHANGED <<yielded, fetch_lens, count_calls, progress>>
    /\ UNCHANGED calls
    /\ fetch_cursors' = Append(fetch_cursors, cursor)
    /\ UNCHANGED peer

\* The write for the next record of the chunk raises a storage error other
\* than IntegrityError: the statement changes nothing, nothing catches the
\* error, the invocation ends.
StorageErrorOnWrite ==
    /\ pc = "chunk"
    /\ idx <= Len(chunk)
    /\ yielded' = Append(yielded, chunk[idx])
    /\ pc' = "error"
    /\ UNCHANGED <<params, store, cursor, has_more, chunk, idx, runinfo>>
    /\ UNCHANGED <<fetches, fetch_lens, count_calls, progress>>
    /\ conn_open' = 0
    /\ UNCHANGED <<tag_calls, log_queries, conn_acquired>>
    /\ UNCHANGED fetch_cursors
    /\ UNCHANGED peer

InitFail ==
    /\ \/ /\ proc = "migrate_run_repo_tags"
          /\ \/ InitRepoTagsStore(SmallSizes, Templates(RepoTagsShapes \o RepoTagsCorruptShapes))
             \/ InitRepoTagsStore({CHUNK_SIZE + 1},
                                  {RepoTagsShapes, UnlabelledShapes,
                                   RepoTagsShapes \o RepoTagsCorruptShapes})
       \/ /\ proc = "migrate_bulk_actions"
          /\ \/ InitBulkActionsStore(SmallSizes,
                                     Templates(BulkActionsShapes \o BulkActionsCorruptShapes))
             \/ InitBulkActionsStore({CHUNK_SIZE + 1},
                                     {UnpopulatedShapes,
                                      BulkActionsShapes \o BulkActionsCorruptShapes})
       \/ /\ proc = "migrate_run_backfill_id"
          /\ \/ InitBackfillIdStore(SmallSizes, Templates(BackfillIdShapes))
             \/ InitBackfillIdStore({CHUNK_SIZE + 1}, {BackfillIdShapes})
       \/ /\ proc = "migrate_run_start_end"
          /\ \/ InitStartEndStore(SmallSizes, Templates(StartEndShapes))
             \/ InitStartEndStore({CHUNK_SIZE + 1}, {StartEndShapes})
    /\ InitRun({FALSE}, {TRUE})

NextFail ==
    \/ migrate_run_repo_tags_start
    \/ migrate_run_repo_tags_query
    \/ migrate_run_repo_tags_row
    \/ migrate_run_repo_tags_chunk_end
    \/ migrate_run_repo_tags_return
    \/ migrate_bulk_actions_start
    \/ migrate_bulk_actions_query
    \/ migrate_bulk_actions_row
    \/ migrate_bulk_actions_chunk_end
    \/ migrate_bulk_actions_return
    \/ IterStart
    \/ IterFetch
    \/ IterYield
    \/ IterChunkEnd
    \/ IterReturn
    \/ StorageErrorOnFetch
    \/ StorageErrorOnWrite

SpecFail == InitFail /\ [][NextFail]_vars

\* ------------------------- a migration aborted part-way and re-invoked

\* The first invocation may be aborted at any point. The stores: every small
\* store, and stores of more than one chunk that cycle through the shapes
\* (through all of them, and through those the chunk queries select).
InitCrash ==
    /\ \/ /\ proc = "migrate_run_repo_tags"
          /\ \/ InitRepoTagsStore(SmallSizes, Templates(RepoTagsShapes))
             \/ InitRepoTagsStore({CHUNK_SIZE + 1}, {RepoTagsShapes, UnlabelledShapes})
       \/ /\ proc = "migrate_bulk_actions"
          /\ \/ InitBulkActionsStore(SmallSizes, Templates(BulkActionsShapes))
             \/ InitBulkActionsStore({CHUNK_SIZE + 1}, {BulkActionsShapes, UnpopulatedShapes})
       \/ /\ proc = "migrate_run_backfill_id"
          /\ \/ InitBackfillIdStore(SmallSizes, Templates(BackfillIdShapes))
             \/ InitBackfillIdStore({CHUNK_SIZE + 1}, {BackfillIdShapes})
       \/ /\ proc = "migrate_run_start_end"
          /\ \/ InitStartEndStore(SmallSizes, Templates(StartEndShapes))
             \/ InitStartEndStore({CHUNK_SIZE + 1}, {StartEndShapes})
    /\ InitRun({FALSE}, {TRUE})

NextCrash ==
    \/ migrate_run_repo_tags_start
    \/ migrate_run_repo_tags_query
    \/ migrate_run_repo_tags_row
    \/ migrate_run_repo_tags_chunk_end
    \/ migrate_run_repo_tags_return
    \/ migrate_bulk_actions_start
    \/ migrate_bulk_actions_query
    \/ migrate_bulk_actions_row
    \/ migrate_bulk_actions_chunk_end
    \/ migrate_bulk_actions_return
    \/ IterStart
    \/ IterFetch
    \/ IterYield
    \/ IterChunkEnd
    \/ IterReturn
    \/ Abort
    \/ Reinvoke

SpecCrash == InitCrash /\ [][NextCrash]_vars

\* ------------------------------------------------- properties of the iterators

\* Number of records of the table the procedure's iterator reads.
IterCount ==
    IF IteratorOf(proc) = "chunked_backfill_iterator" THEN Len(bulk_actions) ELSE Len(runs)

\* C1: with chunk_size > 0 and no concurrent modification, at every point the
\* records yielded so far are the first records of the store, each once and in
\* the store's order; the iteration is never stuck before it returns; and when
\* it has returned, every one of the N records has been yielded.
C1_YieldsAllOnceInOrder ==
    (proc \in Iterators /\ chunk_size > 0) =>
        /\ Len(yielded) <= IterCount
        /\ \A k \in 1..Len(yielded) : yielded[k] = k
        /\ (pc = "done" => Len(yielded) = IterCount)
        /\ (pc # "done" => ENABLED NextIter)

\* A complete iteration that took several fetch calls.
C1_Witness ==
    /\ proc \in Iterators
    /\ chunk_size > 1
    /\ pc = "done"
    /\ fetches >= 3
    /\ Len(yielded) = MaxRecords

Ceil(n, c) == (n + c - 1) \div c

\* C2 as stated: a complete iteration issues exactly ceil(N/C) fetch calls and
\* its last fetch call returns fewer than C records.
C2_CeilFetchCalls ==
    (proc \in Iterators /\ chunk_size > 0 /\ pc = "done") =>
        /\ fetches = Ceil(IterCount, chunk_size)
        /\ fetch_lens[fetches] < chunk_size

\* C2 amended: a complete iteration issues exactly floor(N/C) + 1 fetch calls;
\* every fetch call but the last returns exactly C records and the last returns
\* N mod C records, fewer than C (0 when N = 0 or N is a multiple of C).
C2_FloorPlusOneFetchCalls ==
    (proc \in Iterators /\ chunk_size > 0 /\ pc = "done") =>
        /\ fetches = (IterCount \div chunk_size) + 1
        /\ Len(fetch_lens) = fetches
        /\ \A k \in 1..(fetches - 1) : fetch_lens[k] = chunk_size
        /\ fetch_lens[fetches] = IterCount % chunk_size
        /\ fetch_lens[fetches] < chunk_size

\* A complete iteration of a non-empty store whose size is a multiple of C.
C2_Witness ==
    /\ proc \in Iterators
    /\ chunk_size > 1
    /\ pc = "done"
    /\ IterCount > chunk_size
    /\ IterCount % chunk_size = 0
    /\ fetch_lens[fetches] = 0

\* C3: with chunk_size = 0 the iterator yields nothing and issues at most one
\* fetch call, after which it returns, whatever the store holds.
C3_ZeroChunkSize ==
    (proc \in Iterators /\ chunk_size = 0) =>
        /\ yielded = <<>>
        /\ fetches <= 1
        /\ (fetches = 1 => ~has_more)
        /\ (pc # "done" => ENABLED NextIter)

\* A returned iteration with chunk_size = 0 over a non-empty store.
C3_Witness ==
    /\ proc \in Iterators
    /\ chunk_size = 0
    /\ pc = "done"
    /\ fetches = 1
    /\ IterCount = MaxRecords

\* The four migrations C4 names.
CrashSafeMigrations ==
    {"migrate_run_repo_tags", "migrate_bulk_actions", "migrate_run_backfill_id",
     "migrate_run_start_end"}

\* C4: when the first invocation of the repository-label, bulk-action-type,
\* run-backfill-id or start/end migration was aborted at any point and the
\* migration was invoked again from scratch, the re-invocation raises no error
\* and, once it has returned, the store equals the store one uninterrupted
\* invocation produces from the initial store.
C4_CrashThenRerunEqualsUninterrupted ==
    (proc \in CrashSafeMigrations /\ crashed /\ invocation >= 2) =>
        /\ pc # "error"
        /\ (pc = "done" => St = Uninterrupted(proc, store0, event_log))

\* A re-invocation that returned on a store of more than one chunk after the
\* first invocation was aborted with part of its writes applied: the store at
\* the abort has the last row of the first chunk rewritten and is not the
\* final one.
C4_Witness ==
    /\ proc = "migrate_run_start_end"
    /\ crashed
    /\ invocation = 2
    /\ pc = "done"
    /\ Len(runs) > CHUNK_SIZE
    /\ aborted_store[1].runs[CHUNK_SIZE] # store0.runs[CHUNK_SIZE]
    /\ aborted_store[1] # St

\* C5: once a first invocation of migrate_run_repo_tags has returned, a second
\* invocation on the store it left raises no error and, at every point up to
\* and including its return, the tag rows are those the first invocation left.
C5_RepoTagsIdempotent ==
    (proc = "migrate_run_repo_tags" /\ invocation >= 2 /\ first_result # None) =>
        /\ pc # "error"
        /\ run_tags = first_result[1].run_tags

\* A second invocation that returned, on a store of more than one chunk in
\* which the first invocation wrote tag rows and the second one fetched runs
\* again (those without a remote_job_origin stay without a label).
C5_Witness ==
    /\ proc = "migrate_run_repo_tags"
    /\ invocation = 2
    /\ pc = "done"
    /\ first_result # None
    /\ Len(runs) > CHUNK_SIZE
    /\ Len(first_result[1].run_tags) > Len(store0.run_tags)
    /\ yielded # <<>>

\* The rows RunAssetsTable holds for a run, in table order.
RunAssetRows(tbl, run_id) == SelectSeq(tbl, LAMBDA r : r.run_id = run_id)

\* The distinct non-null asset keys the asset events of a run reference.
AssetKeysOf(run_id) ==
    {event_log[run_id].asset_events[j] : j \in 1..Len(event_log[run_id].asset_events)} \ {None}

\* A run that has left the unstarted statuses and had no run-assets row when
\* the first invocation began.
StartedWithoutRows(i) ==
    /\ RunOf(runs, i).status \notin UNSTARTED_RUN_STATUSES
    /\ RunAssetRows(store0.run_assets, RunOf(runs, i).run_id) = <<>>

\* C6: when migrate_run_assets has returned, every started run that had no
\* run-assets row before has exactly one row per distinct non-null asset key
\* of its asset events (M rows); a second invocation raises no error and, when
\* it has returned, each such run has the very rows the first one left.
C6_RunAssetsRowsAndRerun ==
    (proc = "migrate_run_assets") =>
        /\ (invocation >= 2 /\ first_result # None) => pc # "error"
        /\ pc = "done" =>
              \A i \in 1..Len(runs) :
                  StartedWithoutRows(i) =>
                      LET id == RunOf(runs, i).run_id
                          rows == RunAssetRows(run_assets, id)
                      IN  /\ Len(rows) = Cardinality(AssetKeysOf(id))
                          /\ {rows[j].asset_key : j \in 1..Len(rows)} =
                                 {to_string(k) : k \in AssetKeysOf(id)}
                          /\ first_result # None =>
                                 rows = RunAssetRows(first_result[1].run_assets, id)

\* A second invocation that returned, with a started run whose four asset
\* events reference two distinct asset keys (one twice, one event none) and
\* that holds two rows.
C6_Witness ==
    /\ proc = "migrate_run_assets"
    /\ invocation = 2
    /\ pc = "done"
    /\ first_result # None
    /\ \E i \in 1..Len(runs) :
          /\ StartedWithoutRows(i)
          /\ Len(event_log[i].asset_events) = 4
          /\ Cardinality(AssetKeysOf(i)) = 2
          /\ Len(RunAssetRows(run_assets, i)) = 2

\* C7: a re-run of migrate_backfill_job_name_and_tags does not abort with an
\* error and, when an invocation has returned, the backfill-tags table holds
\* at most one row per (backfill id, key) pair; after a re-run it holds what
\* the first invocation left.
C7_BackfillTagsRerunSafe ==
    (proc = "migrate_backfill_job_name_and_tags") =>
        /\ invocation >= 2 => pc # "error"
        /\ pc = "done" =>
              Cardinality({<<backfill_tags[j].backfill_id, backfill_tags[j].key>> :
                              j \in 1..Len(backfill_tags)}) = Len(backfill_tags)
        /\ (pc = "done" /\ first_result # None) =>
              backfill_tags = first_result[1].backfill_tags

\* C8: migrate_bulk_actions never holds a fetched, not yet processed row whose
\* action_type is non-null, and no step of it (in any chunk, on any
\* invocation) changes a row whose action_type is non-null.
C8_PopulatedRowsUntouched ==
    /\ [](proc = "migrate_bulk_actions" /\ pc = "chunk" =>
             \A k \in idx..Len(chunk) : bulk_actions[chunk[k]].action_type = NULL)
    /\ [][proc = "migrate_bulk_actions" =>
             \A i \in 1..Len(bulk_actions) :
                 bulk_actions[i].action_type # NULL => bulk_actions'[i] = bulk_actions[i]]_vars

\* A re-run that returned on a store of more than one chunk that began with
\* populated rows next to rows the first invocation populated.
C8_Witness ==
    /\ proc = "migrate_bulk_actions"
    /\ invocation = 2
    /\ pc = "done"
    /\ Len(bulk_actions) > 2 * CHUNK_SIZE
    /\ \E i, j \in 1..TemplateLen :
          /\ store0.bulk_actions[i].action_type # NULL
          /\ store0.bulk_actions[j].action_type = NULL
          /\ bulk_actions[j].action_type # NULL
    /\ first_result # None
    /\ Len(first_result[1].bulk_actions) = Len(bulk_actions)

\* C9: when migrate_bulk_actions has returned, no row has a null action_type,
\* and every row whose action_type was null when the first invocation began
\* has the selector_id and the action_type of its own body, also when it
\* shares its backfill key with a row of another body.
C9_RowsPopulatedFromOwnBody ==
    (proc = "migrate_bulk_actions" /\ pc = "done") =>
        \A i \in 1..Len(bulk_actions) :
            /\ bulk_actions[i].action_type # NULL
            /\ store0.bulk_actions[i].action_type = NULL =>
                  /\ bulk_actions[i].selector_id = BackfillOf(bulk_actions, i).selector_id
                  /\ bulk_actions[i].action_type = BackfillOf(bulk_actions, i).bulk_action_type

\* A first invocation that returned on a store of more than one chunk in
\* which two rows that share their key and differ in their bodies were both
\* unpopulated, and now differ in their columns.
C9_Witness ==
    /\ proc = "migrate_bulk_actions"
    /\ invocation = 1
    /\ pc = "done"
    /\ Len(bulk_actions) > CHUNK_SIZE
    /\ fetches >= 2
    /\ \E i, j \in 1..TemplateLen :
          /\ bulk_actions[i].key = bulk_actions[j].key
          /\ bulk_actions[i].body # bulk_actions[j].body
          /\ store0.bulk_actions[i].action_type = NULL
          /\ store0.bulk_actions[j].action_type = NULL
          /\ bulk_actions[i].selector_id # bulk_actions[j].selector_id
          /\ bulk_actions[i].action_type # bulk_actions[j].action_type

\* C10: when migrate_run_start_end has returned, every run whose status is
\* outside the unstarted statuses has the start_time and end_time of the event
\* log's statistics for it, whatever was stored before.
C10_StartEndOverwritten ==
    (proc = "migrate_run_start_end" /\ pc = "done") =>
        \A i \in 1..Len(runs) :
            RunOf(runs, i).status \notin UNSTARTED_RUN_STATUSES =>
                /\ runs[i].start_time = get_run_stats(event_log, runs[i].run_id).start_time
                /\ runs[i].end_time = get_run_stats(event_log, runs[i].run_id).end_time

\* A first invocation that returned on a store of more than one chunk with a
\* started run that held a start_time and an end_time other than the event
\* log's.
C10_Witness ==
    /\ proc = "migrate_run_start_end"
    /\ invocation = 1
    /\ pc = "done"
    /\ Len(runs) > CHUNK_SIZE
    /\ \E i \in 1..TemplateLen :
          /\ RunOf(runs, i).status \notin UNSTARTED_RUN_STATUSES
          /\ store0.runs[i].start_time \notin {NULL, event_log[i].start_time}
          /\ store0.runs[i].end_time \notin {NULL, event_log[i].end_time}
          /\ runs[i].start_time = event_log[i].start_time

\* The repository-label rows RunTagsTable holds for a run, in table order.
LabelRows(tbl, run_id) ==
    SelectSeq(tbl, LAMBDA r : r.run_id = run_id /\ r.key = REPOSITORY_LABEL_TAG)

\* C11: when migrate_run_repo_tags has returned, every run with a
\* remote_job_origin has exactly one repository-label row; a run that had none
\* before has the label of its origin; a run without remote_job_origin has the
\* rows it had; a run that had a repository-label row has that very row.
C11_RepoTagsResult ==
    (proc = "migrate_run_repo_tags" /\ pc = "done") =>
        \A i \in 1..Len(runs) :
            LET id == runs[i].run_id
                origin == RunOf(runs, i).remote_job_origin
                before == LabelRows(store0.run_tags, id)
                after == LabelRows(run_tags, id)
            IN  /\ origin # NULL => Len(after) = 1
                /\ (origin # NULL /\ before = <<>>) => after[1].value = get_label(origin)
                /\ origin = NULL => after = before
                /\ before # <<>> => after = before

\* A first invocation that returned on a store of more than one chunk that
\* alternates a run that was given the label of its origin with a run that
\* keeps the label row it had.
C11_Witness ==
    /\ proc = "migrate_run_repo_tags"
    /\ invocation = 1
    /\ pc = "done"
    /\ Len(runs) > CHUNK_SIZE
    /\ \E i, j \in 1..TemplateLen :
          /\ LabelRows(store0.run_tags, i) = <<>>
          /\ Len(LabelRows(run_tags, i)) = 1
          /\ LabelRows(run_tags, i)[1].value = "repoA"
          /\ LabelRows(store0.run_tags, j) # <<>>
          /\ LabelRows(run_tags, j)[1].value = "stale"

\* The number of rows the fetches of the invocation returned.
Fetched == IF fetch_lens = <<>> THEN 0
           ELSE LET F[k \in 0..Len(fetch_lens)] ==
                        IF k = 0 THEN 0 ELSE F[k - 1] + fetch_lens[k]
                IN  F[Len(fetch_lens)]

\* C12: migrate_run_repo_tags and migrate_run_assets never end with an error
\* when an insert collides with a row that exists: every fetched record is
\* processed, migrate_run_assets reaches every run, and when
\* migrate_run_repo_tags has returned every run with a remote_job_origin has
\* its one repository-label row.
C12_CollisionsSwallowed ==
    (proc \in {"migrate_run_repo_tags", "migrate_run_assets"}) =>
        /\ pc # "error"
        /\ pc = "done" =>
              /\ Len(yielded) = Fetched
              /\ proc = "migrate_run_assets" => Len(yielded) = Len(runs)
              /\ proc = "migrate_run_repo_tags" =>
                    \A i \in 1..Len(runs) :
                        RunOf(runs, i).remote_job_origin # NULL =>
                            Len(LabelRows(run_tags, runs[i].run_id)) = 1

\* migrate_run_repo_tags returned after two chunks although another process
\* had labelled a run of the first chunk that has a remote_job_origin before
\* its turn, with runs processed after it.
C12_Witness ==
    /\ proc = "migrate_run_repo_tags"
    /\ pc = "done"
    /\ fetches >= 2
    /\ Len(yielded) > CHUNK_SIZE
    /\ \E j \in 1..Len(run_tags) :
          /\ run_tags[j].value = "other"
          /\ run_tags[j].run_id < CHUNK_SIZE
          /\ RunOf(runs, run_tags[j].run_id).remote_job_origin # NULL

\* The records an invocation that ended with an error had processed before
\* the statement that raised: all it took up when a fetch raised, all but the
\* last one when the statement of a record raised.
ProcessedBeforeError ==
    IF Len(fetch_lens) < fetches THEN yielded
    ELSE SubSeq(yielded, 1, Len(yielded) - 1)

\* C13: when a statement of a migration raises an error other than a
\* uniqueness violation, the invocation has ended (no step follows), the store
\* is the initial store with the writes of the records processed before, in
\* order, and nothing of the failing record or of a later one; and an
\* invocation returns only when every body it took up deserialized.
C13_ErrorsPropagate ==
    /\ pc = "error" =>
          /\ ~ENABLED NextFail
          /\ St = FoldChunk(proc, store0, event_log, ProcessedBeforeError,
                            1, Len(ProcessedBeforeError))
    /\ (pc = "done" /\ proc = "migrate_run_repo_tags") =>
          \A k \in 1..Len(yielded) :
              deserialize_value(runs[yielded[k]].run_body, "DagsterRun") # None
    /\ (pc = "done" /\ proc = "migrate_bulk_actions") =>
          \A k \in 1..Len(yielded) :
              deserialize_value(bulk_actions[yielded[k]].body, "PartitionBackfill") # None

\* migrate_run_repo_tags ended with the error of a body that does not
\* deserialize, after it had written the label of an earlier run.
C13_Witness ==
    /\ proc = "migrate_run_repo_tags"
    /\ pc = "error"
    /\ Len(fetch_lens) = fetches
    /\ Len(yielded) >= 2
    /\ idx <= Len(chunk)
    /\ deserialize_value(runs[yielded[Len(yielded)]].run_body, "DagsterRun") = None
    /\ Len(run_tags) > Len(store0.run_tags)

\* The identifier of the record at position i of the table the iterator reads.
RowId(st, i) == ItemId(IteratorOf(proc), st, i)

\* C14: with chunk_size > 0, while other processes insert records after the
\* iterator's cursor at any point between its steps, no record is yielded
\* twice, the records yielded are in the storage's order, and once the iterator
\* has returned every record the store held when the iteration began has been
\* yielded.
C14_InsertsAfterCursor ==
    (proc \in Iterators /\ chunk_size > 0) =>
        /\ \A j, k \in 1..Len(yielded) :
              j < k => /\ RowId(St, yielded[j]) # RowId(St, yielded[k])
                       /\ yielded[j] < yielded[k]
        /\ pc = "done" =>
              \A i \in 1..Len(IterTable(store0)) :
                  \E k \in 1..Len(yielded) : RowId(St, yielded[k]) = RowId(store0, i)

\* An iterator returned after a record was inserted between two records of a
\* chunk it had fetched and another after the last record of the store.
C14_Witness ==
    /\ proc \in Iterators
    /\ chunk_size > 1
    /\ pc = "done"
    /\ fetches >= 3
    /\ Len(IterTable(store0)) >= 3
    /\ Len(IterTable(St)) = Len(IterTable(store0)) + MaxInserts
    /\ Len(yielded) = Len(IterTable(store0)) + 1
    /\ \E i \in 1..(Len(IterTable(St)) - 1) : RowId(St, i) > Len(IterTable(store0))

\* The run at position i carries both partition tags.
HasBothPartitionTags(i) ==
    /\ PARTITION_NAME_TAG \in DOMAIN RunOf(runs, i).tags
    /\ PARTITION_SET_TAG \in DOMAIN RunOf(runs, i).tags

\* The rows the tag index holds for a run.
TagRowsOf(tbl, run_id) == SelectSeq(tbl, LAMBDA r : r.run_id = run_id)

\* C16: every add_run_tags call of the partition-tag backfill is for a run
\* that carries both partition tags; and when it has returned it has called
\* add_run_tags exactly once for each such run, with the run's whole tag
\* mapping, and the tag index of a run missing either tag is as it was.
C16_AddRunTagsCalls ==
    proc = "migrate_run_partition" =>
        /\ \A k \in 1..Len(tag_calls) : HasBothPartitionTags(tag_calls[k].run_id)
        /\ pc = "done" =>
              /\ \A i \in 1..Len(runs) :
                    IF HasBothPartitionTags(i)
                    THEN /\ \E k \in 1..Len(tag_calls) :
                              /\ tag_calls[k].run_id = runs[i].run_id
                              /\ tag_calls[k].tags = RunOf(runs, i).tags
                         /\ \A j, k \in 1..Len(tag_calls) :
                              (tag_calls[j].run_id = runs[i].run_id
                                 /\ tag_calls[k].run_id = runs[i].run_id) => j = k
                    ELSE TagRowsOf(run_tags, runs[i].run_id)
                            = TagRowsOf(store0.run_tags, runs[i].run_id)

\* The backfill returned from a store of more than a chunk, having called
\* add_run_tags with a mapping of three tags and passed over a run that
\* carries the partition-name tag alone.
C16_Witness ==
    /\ proc = "migrate_run_partition"
    /\ pc = "done"
    /\ Len(runs) > CHUNK_SIZE
    /\ \E k \in 1..Len(tag_calls) : BACKFILL_ID_TAG \in DOMAIN tag_calls[k].tags
    /\ \E i \in 1..Len(runs) :
          /\ PARTITION_NAME_TAG \in DOMAIN RunOf(runs, i).tags
          /\ ~HasBothPartitionTags(i)
          /\ \A k \in 1..Len(tag_calls) : tag_calls[k].run_id # runs[i].run_id

\* C15: on a storage that is not a SqlRunStorage a migration does nothing: it
\* issues no fetch and no count query on the run store, no query on the event
\* log, no add_run_tags call, enters no connection scope, and the store stays
\* as it was.
C15_NonRelationalNoOp ==
    (proc \in Migrations /\ ~relational) =>
        /\ fetches = 0
        /\ count_calls = 0
        /\ log_queries = <<>>
        /\ tag_calls = <<>>
        /\ conn_acquired = 0
        /\ St = store0

\* C17: when migrate_run_backfill_id has returned, the backfill_id column of
\* every run that carries a backfill-id tag is the value of the tag, the
\* column of every other run is as it was, and nothing else of a row changed.
C17_BackfillIdColumn ==
    (proc = "migrate_run_backfill_id" /\ pc = "done") =>
        /\ Len(runs) = Len(store0.runs)
        /\ \A i \in 1..Len(runs) :
              runs[i] = IF BACKFILL_ID_TAG \in DOMAIN RunOf(runs, i).tags
                        THEN [store0.runs[i] EXCEPT
                                 !.backfill_id = RunOf(runs, i).tags[BACKFILL_ID_TAG]]
                        ELSE store0.runs[i]

\* The migration returned from a store of more than a chunk in which it
\* replaced a backfill_id that differed from the tag and passed over a run
\* without the tag whose column was set.
C17_Witness ==
    /\ proc = "migrate_run_backfill_id"
    /\ pc = "done"
    /\ invocation = 1
    /\ Len(runs) > CHUNK_SIZE
    /\ \E i \in 1..Len(runs) :
          /\ store0.runs[i].backfill_id = "bfOld"
          /\ runs[i].backfill_id = "bf2"
    /\ \E i \in 1..Len(runs) :
          /\ BACKFILL_ID_TAG \notin DOMAIN RunOf(runs, i).tags
          /\ runs[i].backfill_id = "bfOld"

\* The number of rows of the backfill-tags table that satisfy Test.
CountTagRows(Test(_)) == Len(SelectSeq(backfill_tags, Test))

\* C18: when the first run of migrate_backfill_job_name_and_tags on a store
\* with an empty backfill-tags table has returned, the table holds exactly one
\* row for each (key, value) pair of each backfill's tags and no other row (so
\* none for a backfill without tags); the bulk-actions row of a backfill with
\* a job name has that job name, and the job_name of a row whose backfill has
\* none is as it was.
C18_TagsAndJobNames ==
    (proc = "migrate_backfill_job_name_and_tags" /\ pc = "done" /\ invocation = 1
        /\ store0.backfill_tags = <<>>) =>
        \A i \in 1..Len(bulk_actions) :
            LET backfill == BackfillOf(bulk_actions, i)
            IN  /\ \A j \in 1..Len(backfill.tags) :
                      CountTagRows(LAMBDA r : r = [backfill_id |-> backfill.backfill_id,
                                                  key |-> backfill.tags[j][1],
                                                  value |-> backfill.tags[j][2]]) = 1
                /\ CountTagRows(LAMBDA r : r.backfill_id = backfill.backfill_id)
                      = Len(backfill.tags)
                /\ bulk_actions[i].job_name =
                      IF backfill.job_name # NULL THEN backfill.job_name
                      ELSE store0.bulk_actions[i].job_name

\* The first run returned from a store of more than a chunk, with the two tag
\* rows of a backfill written, a job name written and a stored job_name kept.
C18_Witness ==
    /\ proc = "migrate_backfill_job_name_and_tags"
    /\ pc = "done"
    /\ invocation = 1
    /\ Len(bulk_actions) > CHUNK_SIZE
    /\ \E i \in 1..Len(bulk_actions) :
          /\ Len(BackfillOf(bulk_actions, i).tags) = 2
          /\ CountTagRows(LAMBDA r : r.backfill_id = bulk_actions[i].key) = 2
          /\ store0.bulk_actions[i].job_name = NULL
          /\ bulk_actions[i].job_name = "jobA"
    /\ \E i \in 1..Len(bulk_actions) :
          /\ BackfillOf(bulk_actions, i).job_name = NULL
          /\ bulk_actions[i].job_name = "jobOld"

\* The run at position i has a status of the unstarted set.
Unstarted(i) == RunOf(runs, i).status \in UNSTARTED_RUN_STATUSES

\* C19: migrate_run_start_end and migrate_run_assets never query the event
\* log for a run whose status is in the unstarted set, and at every point the
\* row of such a run (its start_time and end_time with it) and its run-asset
\* rows are as they were when the migration was first invoked.
C19_UnstartedUntouched ==
    proc \in {"migrate_run_start_end", "migrate_run_assets"} =>
        /\ \A k \in 1..Len(log_queries) :
              \A i \in 1..Len(runs) : runs[i].run_id = log_queries[k] => ~Unstarted(i)
        /\ \A i \in 1..Len(runs) :
              Unstarted(i) =>
                  /\ runs[i] = store0.runs[i]
                  /\ RunAssetRows(run_assets, runs[i].run_id)
                        = RunAssetRows(store0.run_assets, runs[i].run_id)

\* migrate_run_start_end returned having queried the event log for a started
\* run and having left alone a queued run whose stored start_time differs from
\* the event log's.
C19_Witness ==
    /\ proc = "migrate_run_start_end"
    /\ pc = "done"
    /\ log_queries # <<>>
    /\ \E i \in 1..Len(runs) :
          /\ RunOf(runs, i).status = "QUEUED"
          /\ runs[i].start_time = "local1"
          /\ event_log[runs[i].run_id].start_time = "t1"
          /\ i \in {yielded[k] : k \in 1..Len(yielded)}

\* C20: at every point at most one connection scope is open; rows of a chunk
\* are written with the chunk's scope open and the store has changed only if
\* a scope was acquired; none is open once the migration has returned or ended
\* with an error; and a migration that has returned has acquired one scope for
\* each chunk it fetched.
C20_ConnectionScoping ==
    proc \in Migrations =>
        /\ conn_open <= 1
        /\ (pc = "chunk" /\ proc \in {"migrate_run_repo_tags", "migrate_bulk_actions"})
              => conn_open = 1
        /\ St # store0 => conn_acquired >= 1
        /\ pc \in {"done", "error"} => conn_open = 0
        /\ pc = "done" => conn_acquired = fetches

\* The sum of the first n elements of a sequence of numbers.
RECURSIVE SumFirst(_, _)
SumFirst(seq, n) == IF n = 0 THEN 0 ELSE seq[n] + SumFirst(seq, n - 1)

\* The chunks whose for loop has ended.
ChunksDone == IF pc = "chunk" THEN Len(fetch_lens) - 1 ELSE Len(fetch_lens)

\* C21: with a progress callback the count query is issued exactly once, and
\* before the first fetch; the progress bar has been advanced by the length of
\* each chunk whose loop has ended, and by the number of records yielded once
\* the iteration is complete. Without a callback no count query is issued and
\* there is no progress bar.
C21_CountOnceAndProgress ==
    proc \in Iterators =>
        IF print_fn
        THEN /\ count_calls = IF pc = "start" THEN 0 ELSE 1
             /\ fetches > 0 => count_calls = 1
             /\ pc # "start" =>
                   /\ progress # None
                   /\ progress[1] = SumFirst(fetch_lens, ChunksDone)
             /\ pc = "done" => progress[1] = Len(yielded)
        ELSE /\ count_calls = 0
             /\ progress = None

\* A complete iteration with a callback whose last chunk was short but not
\* empty.
C21_Witness ==
    /\ proc \in Iterators
    /\ print_fn
    /\ pc = "done"
    /\ fetches >= 3
    /\ fetch_lens[fetches] > 0
    /\ fetch_lens[fetches] < chunk_size
    /\ progress = Some(Len(yielded))
    /\ count_calls = 1

\* C22: at every point of every migration the required registry holds exactly
\* the five names run_partitions, run_repo_label_tags, bulk_action_types,
\* run_backfill_id and backfill_job_name_and_tags, the optional one exactly
\* run_start_end_overwritten and run_assets; the seven names are distinct and
\* none is in both; and the producer of each name returns the procedure of
\* that migration.
C22_RegistryFixed ==
    /\ DOMAIN REQUIRED_DATA_MIGRATIONS =
          {"run_partitions", "run_repo_label_tags", "bulk_action_types",
           "run_backfill_id", "backfill_job_name_and_tags"}
    /\ DOMAIN OPTIONAL_DATA_MIGRATIONS = {"run_start_end_overwritten", "run_assets"}
    /\ Cardinality(DOMAIN REQUIRED_DATA_MIGRATIONS) = 5
    /\ Cardinality(DOMAIN OPTIONAL_DATA_MIGRATIONS) = 2
    /\ DOMAIN REQUIRED_DATA_MIGRATIONS \cap DOMAIN OPTIONAL_DATA_MIGRATIONS = {}
    /\ REQUIRED_DATA_MIGRATIONS["run_partitions"] = "migrate_run_partition"
    /\ REQUIRED_DATA_MIGRATIONS["run_repo_label_tags"] = "migrate_run_repo_tags"
    /\ REQUIRED_DATA_MIGRATIONS["bulk_action_types"] = "migrate_bulk_actions"
    /\ REQUIRED_DATA_MIGRATIONS["run_backfill_id"] = "migrate_run_backfill_id"
    /\ REQUIRED_DATA_MIGRATIONS["backfill_job_name_and_tags"]
          = "migrate_backfill_job_name_and_tags"
    /\ OPTIONAL_DATA_MIGRATIONS["run_start_end_overwritten"] = "migrate_run_start_end"
    /\ OPTIONAL_DATA_MIGRATIONS["run_assets"] = "migrate_run_assets"
    /\ {REQUIRED_DATA_MIGRATIONS[n] : n \in DOMAIN REQUIRED_DATA_MIGRATIONS}
          \cup {OPTIONAL_DATA_MIGRATIONS[n] : n \in DOMAIN OPTIONAL_DATA_MIGRATIONS}
          = Migrations

\* An optional migration taken from the registry returned having written to
\* the store.
C22_Witness ==
    /\ proc = OPTIONAL_DATA_MIGRATIONS[RUN_START_END]
    /\ pc = "done"
    /\ St # store0

\* The storage ids, ascending, of the rows that matched the migration's filter
\* when it was invoked: runs without a repository-label row, bulk actions with
\* a null action_type.
MatchingAtStart ==
    IF proc = "migrate_run_repo_tags"
    THEN LET labelled ==
                 {store0.run_tags[j].run_id :
                     j \in {k \in 1..Len(store0.run_tags) :
                               store0.run_tags[k].key = REPOSITORY_LABEL_TAG}}
         IN  MatchingIds([i \in 1..Len(store0.runs) |-> store0.runs[i].run_id \notin labelled],
                         1, Len(store0.runs))
    ELSE MatchingIds([i \in 1..Len(store0.bulk_actions) |->
                         store0.bulk_actions[i].action_type = NULL],
                     1, Len(store0.bulk_actions))

\* C23: in migrate_run_repo_tags and migrate_bulk_actions the first query has
\* no cursor and each later one a cursor greater than the one before; the rows
\* processed so far are the first of the rows that matched at the start, each
\* once and in order; and when the migration has returned it has processed all
\* N of them with at most floor(N / CHUNK_SIZE) + 1 queries.
C23_ScanOnceAndTerminates ==
    proc \in {"migrate_run_repo_tags", "migrate_bulk_actions"} =>
        /\ \A j \in 1..Len(fetch_cursors) :
              IF j = 1 THEN fetch_cursors[j] = None
              ELSE /\ fetch_cursors[j] # None
                   /\ fetch_cursors[j - 1] # None => fetch_cursors[j][1] > fetch_cursors[j - 1][1]
        /\ Len(yielded) <= Len(MatchingAtStart)
        /\ yielded = SubSeq(MatchingAtStart, 1, Len(yielded))
        /\ pc = "done" =>
              /\ yielded = MatchingAtStart
              /\ fetches <= (Len(MatchingAtStart) \div CHUNK_SIZE) + 1

\* migrate_run_repo_tags returned after three queries, the rows it labelled in
\* the first two chunks having dropped out of the filter.
C23_Witness ==
    /\ proc = "migrate_run_repo_tags"
    /\ pc = "done"
    /\ fetches = 3
    /\ Len(fetch_cursors) = 3
    /\ fetch_cursors[3][1] = 2 * CHUNK_SIZE
    /\ Len(run_tags) > Len(store0.run_tags) + CHUNK_SIZE
    /\ Len(yielded) = 2 * CHUNK_SIZE + 1

\* C24: when migrate_run_assets has returned, a started run of which the
\* run-assets table held some but not all pairs before has one row for each of
\* the M distinct non-null asset keys of its asset events, each exactly once.
C24_PartialStateCompleted ==
    (proc = "migrate_run_assets" /\ pc = "done") =>
        \A i \in 1..Len(runs) :
            LET id == RunOf(runs, i).run_id
                before == RunAssetRows(store0.run_assets, id)
                rows == RunAssetRows(run_assets, id)
            IN  (/\ RunOf(runs, i).status \notin UNSTARTED_RUN_STATUSES
                 /\ before # <<>>
                 /\ {before[j].asset_key : j \in 1..Len(before)}
                       \subseteq {to_string(k) : k \in AssetKeysOf(id)}
                 /\ Len(before) < Cardinality(AssetKeysOf(id)))
                => /\ Len(rows) = Cardinality(AssetKeysOf(id))
                   /\ {rows[j].asset_key : j \in 1..Len(rows)}
                         = {to_string(k) : k \in AssetKeysOf(id)}

\* C25: when two processes run migrate_run_repo_tags on the same store,
\* whatever the interleaving of their queries and inserts, neither ends with
\* an error, and once both have returned every run with a remote_job_origin
\* has exactly one repository-label row.
C25_TwoProcesses ==
    proc = "migrate_run_repo_tags" =>
        /\ pc # "error"
        /\ peer.pc # "error"
        /\ (pc = "done" /\ peer.pc = "done") =>
              \A i \in 1..Len(runs) :
                  RunOf(runs, i).remote_job_origin # NULL =>
                      Len(LabelRows(run_tags, runs[i].run_id)) = 1

\* Both processes returned after each had fetched and processed every run of
\* a store of more than a chunk, so that for each run with an origin the
\* insert of one of them collided with the row of the other.
C25_Witness ==
    /\ proc = "migrate_run_repo_tags"
    /\ pc = "done"
    /\ peer.pc = "done"
    /\ Len(runs) > CHUNK_SIZE
    /\ Len(yielded) = Len(runs)
    /\ peer.processed = Len(runs)
    /\ Len(run_tags) = 2

\* The identifier of the k-th record yielded.
YieldedId(k) == ItemId(IteratorOf(proc), St, yielded[k])

\* C26: the first fetch of a chunked iterator is issued with cursor None and
\* each later fetch with the identifier of the last record of the chunk
\* before it, which is the record yielded most recently; the cursor is None
\* until a record is yielded and then the identifier of the last record
\* yielded, never that of a record not yielded.
C26_CursorInvariant ==
    proc \in Iterators =>
        /\ \A j \in 1..Len(fetch_cursors) :
              fetch_cursors[j] =
                  IF j = 1 THEN None
                  ELSE Some(YieldedId(SumFirst(fetch_lens, j - 1)))
        /\ cursor = IF yielded = <<>> THEN None ELSE Some(YieldedId(Len(yielded)))
        /\ pc = "loop" => Len(yielded) = SumFirst(fetch_lens, Len(fetch_lens))

\* A complete iteration of three fetches of chunks of more than one record,
\* the later ones issued with the identifiers of the second and fourth record.
C26_Witness ==
    /\ proc \in Iterators
    /\ pc = "done"
    /\ chunk_size = 2
    /\ Len(fetch_cursors) = 3
    /\ fetch_cursors[2] = Some(YieldedId(2))
    /\ fetch_cursors[3] = Some(YieldedId(4))

\* C27: with a chunk size above 0, a consumer that keeps pulling and finitely
\* many records inserted while the iteration runs, a chunked iterator
\* eventually issues a fetch that returns fewer records than the chunk size
\* and returns.
C27_TerminatesUnderInserts ==
    (proc \in Iterators /\ chunk_size > 0) =>
        <>(/\ pc = "done"
           /\ fetch_lens # <<>>
           /\ fetch_lens[Len(fetch_lens)] < chunk_size)

\* An iterator that returned on a short fetch after both records another
\* process inserted during the iteration had lengthened it by a fetch.
C27_Witness ==
    /\ proc \in Iterators
    /\ chunk_size = 2
    /\ pc = "done"
    /\ Len(IterTable(store0)) = 3
    /\ Len(IterTable(St)) = Len(IterTable(store0)) + MaxInserts
    /\ Len(yielded) = Len(IterTable(St))
    /\ fetches = 3
    /\ fetch_lens[Len(fetch_lens)] < chunk_size

\* The records a migration can fetch when it starts: the table its iterator
\* reads, or the rows its query selects.
AvailableAtStart ==
    IF proc \in IteratingMigrations THEN Len(IterTable(store0)) ELSE Len(MatchingAtStart)

\* C28: a migration runs with the default chunk size; the one chunk it holds
\* is the one fetched last, and neither it nor any chunk fetched before has
\* more than CHUNK_SIZE records, whatever the size of the store; the first
\* fetch returns CHUNK_SIZE records whenever the store has that many to
\* return.
C28_BoundedWorkingSet ==
    proc \in Migrations =>
        /\ chunk_size = CHUNK_SIZE
        /\ Len(chunk) <= CHUNK_SIZE
        /\ \A j \in 1..Len(fetch_lens) : fetch_lens[j] <= CHUNK_SIZE
        /\ Len(fetch_lens) = fetches
        /\ pc = "chunk" => Len(chunk) = fetch_lens[Len(fetch_lens)]
        /\ fetch_lens # <<>> =>
              fetch_lens[1] = IF AvailableAtStart < CHUNK_SIZE THEN AvailableAtStart
                              ELSE CHUNK_SIZE

\* migrate_run_repo_tags holds its second chunk of CHUNK_SIZE rows of a store
\* of more than two chunks of unlabelled runs.
C28_Witness ==
    /\ proc = "migrate_run_repo_tags"
    /\ pc = "chunk"
    /\ Len(runs) > 2 * CHUNK_SIZE
    /\ fetches = 2
    /\ Len(chunk) = CHUNK_SIZE
    /\ Len(yielded) > CHUNK_SIZE

====
